---------------------------- MODULE Spec2Model ----------------------------
(***************************************************************************)
(* Model of the bc-ts request / pagination / error-classification          *)
(* pipeline: categorizeError and the BCError factories (src/src/error),    *)
(* BCClient.request (src/src/client/client.ts) and ApiPage.list / findOne  *)
(* (src/src/pages/api-page.ts).                                            *)
(***************************************************************************)
EXTENDS Integers, Sequences, FiniteSets, TLC

VARIABLES
    server,   \* the collection endpoint the client talks to
    opts,     \* per call: the arguments list() or findOne() was called with
    gen,      \* per call: the locals of the list() generator and of the
              \* request() it awaits, the point it is suspended at, and what
              \* the caller has observed of it
    call,     \* error module: the factory call under evaluation
    out       \* error module: what that call returned

vars == <<server, opts, gen, call, out>>

(***************************************************************************)
(* Bounds of the model.                                                    *)
(***************************************************************************)
MaxPages == 3      \* non-empty pages a modelled server holds
MaxPageSize == 2   \* items per non-empty page
MaxCap == 3        \* largest maxResults a caller passes

\* Logs and the item counter saturate here: above every page total and every
\* cap, so no comparison the code makes is affected.
MaxLog == MaxPages * MaxPageSize + MaxCap + 1

(***************************************************************************)
(* JavaScript values.                                                      *)
(***************************************************************************)
JUndef == [t |-> "undefined"]
JNull == [t |-> "null"]
JStr(s) == [t |-> "string", s |-> s]
JNum(n) == [t |-> "number", n |-> n]
JArr(a) == [t |-> "array", a |-> a]
JObj(f) == [t |-> "object", f |-> f]

\* ToBoolean
Truthy(v) ==
    CASE v.t = "undefined" -> FALSE
      [] v.t = "null" -> FALSE
      [] v.t = "string" -> v.s # ""
      [] v.t = "number" -> v.n # 0
      [] OTHER -> TRUE

\* typeof v
TypeOf(v) ==
    CASE v.t = "undefined" -> "undefined"
      [] v.t = "string" -> "string"
      [] v.t = "number" -> "number"
      [] OTHER -> "object"

\* Reading a property of null or undefined throws a TypeError.
GetThrows(v) == v.t \in {"null", "undefined"}

\* v[k], for v that is neither null nor undefined
Get(v, k) ==
    IF v.t = "object" /\ k \in DOMAIN v.f THEN v.f[k] ELSE JUndef

\* k in v, for v of typeof "object" and not null
HasKey(v, k) == v.t = "object" /\ k \in DOMAIN v.f

IsArray(v) == v.t = "array"

(***************************************************************************)
(* Strings.                                                                *)
(***************************************************************************)
StartsWith(s, p) == Len(s) >= Len(p) /\ SubSeq(s, 1, Len(p)) = p

\* The string helpers are functions of their arguments, so that an argument is
\* evaluated once, before the body.
\* Least index >= from at which the one-character string ch occurs, else 0.
IndexFrom[arg \in STRING \X STRING \X Nat] ==
    LET hits == {k \in arg[3]..Len(arg[1]) : SubSeq(arg[1], k, k) = arg[2]}
    IN IF hits = {} THEN 0
       ELSE CHOOSE k \in hits : \A j \in hits : k <= j

\* s.split(ch), as a sequence of strings
Split[arg \in STRING \X STRING] ==
    LET i == IndexFrom[<<arg[1], arg[2], 1>>]
    IN IF i = 0 THEN <<arg[1]>>
       ELSE <<SubSeq(arg[1], 1, i - 1)>>
            \o Split[<<SubSeq(arg[1], i + 1, Len(arg[1])), arg[2]>>]

\* `${v}` in a template literal
Str(v) ==
    CASE v.t = "string" -> v.s
      [] v.t = "undefined" -> "undefined"
      [] v.t = "null" -> "null"
      [] OTHER -> "[object Object]"

(***************************************************************************)
(* Error categorization (src/src/error/categorize.ts).                     *)
(***************************************************************************)
Group(c, s, r) == [category |-> c, subcategory |-> s, retryStrategy |-> r]

ERROR_CODE_MAPPINGS ==
    "Authentication_TokenRequest" :> Group("AUTHENTICATION", "TOKEN_ERROR", "REFRESH_TOKEN")
    @@ "BadRequest_ResourceNotFound" :> Group("NOT_FOUND", "RESOURCE_NOT_FOUND", "NO_RETRY")
    @@ "BadRequest_NotFound" :> Group("CLIENT_ERROR", "INVALID_URL", "NO_RETRY")
    @@ "BadRequest_InvalidRequestUrl" :> Group("CLIENT_ERROR", "INVALID_URL", "NO_RETRY")
    @@ "BadRequest_InvalidToken" :> Group("CLIENT_ERROR", "INVALID_TOKEN", "REFRESH_TOKEN")
    @@ "BadRequest_InvalidOperation" :> Group("VALIDATION", "FIELD_VALIDATION", "NO_RETRY")
    @@ "BadRequest_RequiredParamNotProvided" :> Group("VALIDATION", "MISSING_REQUIRED_FIELD", "NO_RETRY")
    @@ "BadRequest_MethodNotAllowed" :> Group("CLIENT_ERROR", "METHOD_NOT_ALLOWED", "NO_RETRY")
    @@ "BadRequest_MethodNotImplemented" :> Group("CLIENT_ERROR", "METHOD_NOT_IMPLEMENTED", "NO_RETRY")
    @@ "Request_EntityChanged" :> Group("CONFLICT", "ENTITY_CHANGED", "NO_RETRY")
    @@ "Internal_EntityWithSameKeyExists" :> Group("CONFLICT", "DUPLICATE_KEY", "NO_RETRY")
    @@ "Internal_RecordNotFound" :> Group("NOT_FOUND", "RECORD_NOT_FOUND", "NO_RETRY")
    @@ "Internal_CompanyNotFound" :> Group("NOT_FOUND", "COMPANY_NOT_FOUND", "NO_RETRY")
    @@ "Internal_DataNotFoundFilter" :> Group("NOT_FOUND", "RECORD_NOT_FOUND", "NO_RETRY")
    @@ "Internal_InvalidTableRelation" :> Group("VALIDATION", "INVALID_TABLE_RELATION", "NO_RETRY")
    @@ "Internal_ServerError" :> Group("SERVER_ERROR", "DATABASE_CONNECTION", "EXPONENTIAL_BACKOFF")
    @@ "Internal_TenantUnavailable" :> Group("SERVER_ERROR", "TENANT_UNAVAILABLE", "EXPONENTIAL_BACKOFF")
    @@ "Application_DialogException" :> Group("BUSINESS_LOGIC", "DIALOG_EXCEPTION", "NO_RETRY")
    @@ "Application_FieldValidationException" :> Group("VALIDATION", "FIELD_VALIDATION", "NO_RETRY")
    @@ "Application_StringExceededLength" :> Group("VALIDATION", "STRING_LENGTH_EXCEEDED", "NO_RETRY")
    @@ "Application_InvalidGUID" :> Group("VALIDATION", "INVALID_GUID", "NO_RETRY")
    @@ "Application_FilterErrorException" :> Group("VALIDATION", "FILTER_ERROR", "NO_RETRY")
    @@ "Application_EvaluateException" :> Group("BUSINESS_LOGIC", "EVALUATE_EXCEPTION", "NO_RETRY")
    @@ "Application_CallbackNotAllowed" :> Group("BUSINESS_LOGIC", "CALLBACK_NOT_ALLOWED", "NO_RETRY")
    @@ "Unauthorized" :> Group("AUTHENTICATION", "INVALID_TOKEN", "REFRESH_TOKEN")

\* A Map iterates in insertion order.
PREFIX_DEFAULTS == <<
    <<"BadRequest_", Group("CLIENT_ERROR", "MALFORMED_REQUEST", "NO_RETRY")>>,
    <<"Request_", Group("CONFLICT", "ENTITY_CHANGED", "NO_RETRY")>>,
    <<"Internal_", Group("SERVER_ERROR", "DATABASE_CONNECTION", "EXPONENTIAL_BACKOFF")>>,
    <<"Application_", Group("BUSINESS_LOGIC", "DIALOG_EXCEPTION", "NO_RETRY")>>,
    <<"Authentication_", Group("AUTHENTICATION", "INVALID_TOKEN", "REFRESH_TOKEN")>>,
    <<"Authorization_", Group("AUTHORIZATION", "FIELD_VALIDATION", "NO_RETRY")>> >>

GlobalFallback == Group("UNKNOWN", "MALFORMED_REQUEST", "NO_RETRY")

\* for (const [prefix, defaultMapping] of PREFIX_DEFAULTS), from entry n on
RECURSIVE PrefixScan(_, _)
PrefixScan(code, n) ==
    IF n > Len(PREFIX_DEFAULTS) THEN GlobalFallback
    ELSE IF StartsWith(code, PREFIX_DEFAULTS[n][1]) THEN PREFIX_DEFAULTS[n][2]
    ELSE PrefixScan(code, n + 1)

\* A plausible slip: the prefix defaults are consulted before the exact table.
categorizeError_PrefixFirst(code) ==
    IF PrefixScan(code, 1) # GlobalFallback THEN PrefixScan(code, 1)
    ELSE IF code \in DOMAIN ERROR_CODE_MAPPINGS THEN ERROR_CODE_MAPPINGS[code]
    ELSE GlobalFallback

categorizeError(code) ==
    IF code \in DOMAIN ERROR_CODE_MAPPINGS
    THEN ERROR_CODE_MAPPINGS[code]
    ELSE PrefixScan(code, 1)

(***************************************************************************)
(* BCError and its factories.  An ErrorResponse {error: {code, message}}   *)
(* is the record [code, message]; message is a JavaScript value because    *)
(* BCClient.#getToken passes err.message unchecked.                        *)
(***************************************************************************)
NoError == [type |-> "none"]

\* What JavaScript throws on a property read of null or undefined.
TypeError == [type |-> "TypeError"]

\* new BCError(errorResponse, httpStatus, correlationId).  The fields are the
\* properties the constructor and the factories assign; super(message) is
\* called without options, and responseData is assigned by ApiPage.list only.
BCErrorNew(errorResponse, httpStatus, correlationId) ==
    LET categorization == categorizeError(errorResponse.code)
    IN [type |-> "BCError",
        name |-> "BCError",
        message |-> IF Truthy(errorResponse.message)
                    THEN Str(errorResponse.message)
                    ELSE "Unknown Business Central error",
        code |-> errorResponse.code,
        httpStatus |-> httpStatus,
        originalError |-> errorResponse,
        correlationId |-> IF Truthy(correlationId) THEN correlationId ELSE JUndef,
        category |-> categorization.category,
        subcategory |-> categorization.subcategory,
        retryStrategy |-> categorization.retryStrategy,
        validationDetails |-> JUndef,
        originalResponse |-> JUndef,
        responseData |-> JUndef]

\* A plausible slip: only the backoff strategy counts as retryable
isRetryable_BackoffOnly(e) == e.retryStrategy = "EXPONENTIAL_BACKOFF"

isRetryable(e) == e.retryStrategy # "NO_RETRY"

hasValidationDetails(e) ==
    e.validationDetails.t = "array" /\ Len(e.validationDetails.a) # 0

getValidationFields(e) ==
    IF e.validationDetails.t = "array"
    THEN [n \in 1..Len(e.validationDetails.a) |-> e.validationDetails.a[n].path]
    ELSE <<>>

toSpanAttributes(e) ==
    [code |-> e.code,
     category |-> e.category,
     subcategory |-> e.subcategory,
     retryable |-> isRetryable(e),
     correlation_id |-> IF Truthy(e.correlationId) THEN e.correlationId.s ELSE ""]

\* The switch of fromNetworkError over nodeError.code.
NetworkRetryStrategy(code) ==
    CASE code = JStr("EAI_NONAME") -> "EXPONENTIAL_BACKOFF"
      [] code = JStr("ECONNREFUSED") -> "EXPONENTIAL_BACKOFF"
      [] code \in {JStr("ETIMEDOUT"), JStr("ESOCKETTIMEDOUT")} -> "EXPONENTIAL_BACKOFF"
      [] code \in {JStr("ECONNRESET"), JStr("EPIPE")} -> "EXPONENTIAL_BACKOFF"
      [] code = JStr("ENOTFOUND") -> "NO_RETRY"
      [] code \in {JStr("CERT_HAS_EXPIRED"), JStr("UNABLE_TO_VERIFY_LEAF_SIGNATURE"),
                   JStr("SELF_SIGNED_CERT_IN_CHAIN")} -> "NO_RETRY"
      [] OTHER -> "EXPONENTIAL_BACKOFF"

NetworkSubcategory(code) ==
    IF code \in {JStr("EAI_NONAME"), JStr("ENOTFOUND")}
    THEN "INVALID_URL"
    ELSE "MALFORMED_REQUEST"

fromNetworkError(networkError) ==
    LET code == Get(networkError, "code")
        errorMessage ==
            IF Truthy(code)
            THEN "Network error (" \o Str(code) \o "): " \o Str(Get(networkError, "message"))
            ELSE "Network error: " \o Str(Get(networkError, "message"))
        bcError == BCErrorNew([code |-> "Client_NetworkError",
                               message |-> JStr(errorMessage)], 0, JUndef)
    IN [bcError EXCEPT !.category = "NETWORK_ERROR",
                       !.subcategory = NetworkSubcategory(code),
                       !.retryStrategy = NetworkRetryStrategy(code)]

fromJsonError(jsonError, httpStatus, correlationId) ==
    LET bcError == BCErrorNew(
            [code |-> "Client_JSONParsingError",
             message |-> JStr("Failed to parse JSON response: "
                              \o Str(Get(jsonError, "message")))],
            httpStatus, correlationId)
    IN [bcError EXCEPT !.category = "PARSING_ERROR",
                       !.subcategory = "UNEXPECTED_RESPONSE_FORMAT",
                       !.retryStrategy = "NO_RETRY"]

SchemaMismatchMessage ==
    "Schema validation failed. The provided schema does not match Business Central's response format."

\* httpStatus is a JavaScript value: the parameter defaults to 200 when undefined.
fromParseResult(issues, httpStatus, correlationId) ==
    LET bcError == BCErrorNew(
            [code |-> "Client_SchemaMismatch", message |-> JStr(SchemaMismatchMessage)],
            IF httpStatus.t = "undefined" THEN 200 ELSE httpStatus.n, correlationId)
    IN [bcError EXCEPT !.category = "CLIENT_ERROR",
                       !.subcategory = "SCHEMA_VALIDATION",
                       !.retryStrategy = "NO_RETRY",
                       !.validationDetails = JArr(issues)]

fromUnexpectedResponse(data, httpStatus, correlationId) ==
    LET bcError == BCErrorNew(
            [code |-> "Client_UnexpectedResponseFormat",
             message |-> JStr("Business Central returned an unexpected response format")],
            httpStatus, correlationId)
    IN [bcError EXCEPT !.category = "PARSING_ERROR",
                       !.subcategory = "UNEXPECTED_RESPONSE_FORMAT",
                       !.retryStrategy = "NO_RETRY",
                       !.originalResponse = data]

\* validateErrorResponse returns normally (does not throw) on data
validErrorResponse(data) ==
    /\ Truthy(data) /\ TypeOf(data) = "object"
    /\ HasKey(data, "error") /\ TypeOf(Get(data, "error")) = "object"
    /\ LET error == IF Truthy(Get(data, "error")) THEN Get(data, "error")
                    ELSE JObj(<<>>)
       IN /\ HasKey(error, "code") /\ TypeOf(Get(error, "code")) = "string"
          /\ HasKey(error, "message") /\ TypeOf(Get(error, "message")) = "string"

fromHttpResponse(status, data, correlationId) ==
    IF validErrorResponse(data)
    THEN BCErrorNew([code |-> Get(Get(data, "error"), "code").s,
                     message |-> Get(Get(data, "error"), "message")],
                    status, correlationId)
    ELSE fromUnexpectedResponse(data, status, correlationId)

\* The schema-issues factory ApiPage.list calls.  Its body is not among the
\* sources; modelled from the specification (section 4.1) and error.test.ts.
fromSchemaValidation(issues, httpStatus) ==
    [type |-> "BCError",
     name |-> "BCError",
     message |-> SchemaMismatchMessage,
     code |-> "Client_SchemaMismatch",
     httpStatus |-> IF httpStatus.t = "undefined" THEN 200 ELSE httpStatus.n,
     originalError |-> JUndef,
     correlationId |-> JUndef,
     category |-> "SCHEMA_MISMATCH",
     subcategory |-> "SCHEMA_VALIDATION",
     retryStrategy |-> "NO_RETRY",
     validationDetails |-> JArr(issues),
     originalResponse |-> JUndef,
     responseData |-> JUndef]

\* The catch handler of BCClient.#getToken: err.message is read unchecked.
TokenFailure(rejection) ==
    IF GetThrows(rejection)
    THEN TypeError
    ELSE BCErrorNew([code |-> "Authentication_TokenRequest",
                     message |-> Get(rejection, "message")], 401, JUndef)

(***************************************************************************)
(* URLSearchParams and URL.parse, as far as list() uses them.              *)
(***************************************************************************)
\* "k=v" as <<k, v>>; a part without "=" has the empty value
Pair[part \in STRING] ==
    LET i == IndexFrom[<<part, "=", 1>>]
    IN IF i = 0 THEN <<part, "">>
       ELSE <<SubSeq(part, 1, i - 1), SubSeq(part, i + 1, Len(part))>>

\* new URLSearchParams(query): the name/value pairs in order
URLSearchParams[query \in STRING] ==
    IF query = "" THEN <<>>
    ELSE [n \in 1..Len(Split[<<query, "&">>]) |-> Pair[Split[<<query, "&">>][n]]]

\* searchParams.get(name): the first value under name, else null
ParamsGet(params, name) ==
    LET hits == {n \in 1..Len(params) : params[n][1] = name}
    IN IF hits = {} THEN JNull
       ELSE JStr(params[CHOOSE n \in hits : \A j \in hits : n <= j][2])

\* URL.parse(link) is null for a string that is no absolute URL; the links of the
\* model are absolute http(s) URLs or plain text.
URLParses(link) == StartsWith(link, "https://") \/ StartsWith(link, "http://")

\* URL.parse(link).searchParams
SearchParamsOf[link \in STRING] ==
    LET q == IndexFrom[<<link, "?", 1>>]
    IN IF q = 0 THEN <<>> ELSE URLSearchParams[SubSeq(link, q + 1, Len(link))]

\* URL.parse(link)?.searchParams.get("skipToken") || ""
SkipTokenOfLink[link \in STRING] ==
    IF ~URLParses(link) THEN ""
    ELSE IF Truthy(ParamsGet(SearchParamsOf[link], "skipToken"))
         THEN ParamsGet(SearchParamsOf[link], "skipToken").s
         ELSE ""

(***************************************************************************)
(* The schema capability and parseSchema (src/unnamed/part_012).           *)
(***************************************************************************)
\* s.join(".")
RECURSIVE Join(_)
Join(segs) ==
    IF Len(segs) = 0 THEN ""
    ELSE IF Len(segs) = 1 THEN segs[1]
    ELSE segs[1] \o "." \o Join(Tail(segs))

\* The first sales line of a row that is not an object with a numeric
\* quantity, if the row has lines
BadLine(input) ==
    /\ IsArray(Get(input, "salesOrderLines"))
    /\ Len(Get(input, "salesOrderLines").a) > 0
    /\ TypeOf(Get(Get(input, "salesOrderLines").a[1], "quantity")) # "number"

\* schema["~standard"].validate(input) of the row schema: a row is an object
\* with a numeric id and, optionally, sales lines with a numeric quantity; the
\* output is the transformed row.  The path of an issue is a sequence of
\* property keys (strings, numbers) and path segments {key}.
SchemaValidate(input) ==
    IF input.t # "object"
    THEN [issues |-> <<[message |-> "Invalid input: expected object", path |-> <<>>]>>]
    ELSE IF TypeOf(Get(input, "id")) # "number"
    THEN [issues |-> <<[message |-> "Invalid input: expected number",
                        path |-> <<JStr("id")>>]>>]
    ELSE IF BadLine(input)
    THEN [issues |-> <<[message |-> "Invalid input: expected number",
                        path |-> <<JStr("salesOrderLines"), JNum(0),
                                   JObj("key" :> JStr("quantity"))>>]>>]
    ELSE [value |-> [id |-> Get(input, "id").n, parsed |-> TRUE]]

\* String(segment.key) for a path segment object, else String(segment)
SegmentString(segment) ==
    LET key == IF TypeOf(segment) = "object" /\ HasKey(segment, "key")
               THEN Get(segment, "key")
               ELSE segment
    IN IF key.t = "number" THEN ToString(key.n) ELSE Str(key)

parseSchema(input) ==
    LET result == SchemaValidate(input)
    IN IF "issues" \in DOMAIN result
       THEN [issues |->
                [n \in 1..Len(result.issues) |->
                    LET pathSegments ==
                            [k \in 1..Len(result.issues[n].path) |->
                                SegmentString(result.issues[n].path[k])]
                    IN [message |-> result.issues[n].message,
                        path |-> IF Join(pathSegments) # ""
                                 THEN Join(pathSegments)
                                 ELSE "root"]]]
       ELSE [data |-> result.value]

(***************************************************************************)
(* The vendor HTTP API: a collection served in pages.  A server holds      *)
(* `pages` non-empty pages of `size` rows followed by an empty page, and   *)
(* answers a request by the page its $skipToken names (none: the first).   *)
(* `defect` makes one page deviate from that.                              *)
(***************************************************************************)
Token(p) == "t" \o ToString(p)

PageIndex(cursor) ==
    IF \E p \in 2..(MaxPages + 2) : Token(p) = cursor
    THEN CHOOSE p \in 2..(MaxPages + 2) : Token(p) = cursor
    ELSE 1

LinkBase == "https://bc.test/v2.0/companies(c)/salesOrders?aid=FIN&"

Row(n) == JObj("id" :> JNum(n))

\* A row the row schema rejects.
BadRow == JObj("id" :> JStr("not-a-number"))

\* The rows of page p of a server without defects
PageRows(srv, p) ==
    IF p <= srv.pages
    THEN [j \in 1..srv.size |-> Row((p - 1) * srv.size + j)]
    ELSE <<>>

NoDefect == [page |-> 0, kind |-> "none"]

\* Defects of a non-empty page, and of any page.
RowDefects == {"nolink", "dollarlink", "badlink", "emptytoken", "badfirst", "badlast"}

BodyDefects == {"novalue", "nonarray", "null", "badjson", "http500", "http404", "badjson500"}

Shapes ==
    {[pages |-> 0, size |-> 1]}
    \cup {[pages |-> k, size |-> z] : k \in 1..MaxPages, z \in 1..MaxPageSize}

Servers ==
    {[pages |-> sh.pages, size |-> sh.size, defect |-> NoDefect] : sh \in Shapes}
    \cup UNION {
        {[pages |-> sh.pages, size |-> sh.size, defect |-> [page |-> d, kind |-> kd]] :
            d \in 1..(sh.pages + 1),
            kd \in BodyDefects}
        \cup
        {[pages |-> sh.pages, size |-> sh.size, defect |-> [page |-> d, kind |-> kd]] :
            d \in 1..sh.pages,
            kd \in RowDefects}
        : sh \in Shapes}

\* The @odata.nextLink of page p
NextLink(srv, p) ==
    LET kind == IF srv.defect.page = p THEN srv.defect.kind ELSE "none"
    IN CASE kind = "nolink" -> JUndef
         [] kind = "dollarlink" -> JStr(LinkBase \o "$skiptoken=" \o Token(p + 1))
         [] kind = "badlink" -> JStr("next page: " \o Token(p + 1))
         [] kind = "emptytoken" -> JStr(LinkBase \o "skipToken=")
         [] OTHER -> IF p <= srv.pages
                     THEN JStr(LinkBase \o "skipToken=" \o Token(p + 1))
                     ELSE JUndef

\* The value array of page p
Rows(srv, p) ==
    LET kind == IF srv.defect.page = p THEN srv.defect.kind ELSE "none"
        rows == PageRows(srv, p)
    IN CASE kind = "badfirst" -> [rows EXCEPT ![1] = BadRow]
         [] kind = "badlast" -> [rows EXCEPT ![Len(rows)] = BadRow]
         [] OTHER -> rows

\* An object of the fields that are present
WithLink(fields, link) ==
    IF link.t = "undefined" THEN JObj(fields)
    ELSE JObj(fields @@ ("@odata.nextLink" :> link))

\* The parsed body of page p
Body(srv, p) ==
    LET kind == IF srv.defect.page = p THEN srv.defect.kind ELSE "none"
    IN CASE kind = "novalue" ->
                WithLink("@odata.context" :> JStr("salesOrders"), NextLink(srv, p))
         [] kind = "nonarray" ->
                WithLink("value" :> JStr("oops"), NextLink(srv, p))
         [] kind = "null" -> JNull
         [] kind = "http500" ->
                JObj("error" :> JObj("code" :> JStr("Internal_ServerError")
                                     @@ "message" :> JStr("Database connection failed")))
         [] kind = "http404" -> JObj("notAnError" :> JStr("invalid format"))
         [] OTHER -> WithLink("value" :> JArr(Rows(srv, p)), NextLink(srv, p))

\* The Response fetch() resolves with for a request: status, whether the body
\* parses as JSON, the parsed body, and the request-id header (null if absent).
Respond(srv, request) ==
    LET cursor == ParamsGet(request.params, "$skipToken")
        p == IF Truthy(cursor) THEN PageIndex(cursor.s) ELSE 1
        kind == IF srv.defect.page = p THEN srv.defect.kind ELSE "none"
    IN [page |-> p,
        status |-> CASE kind \in {"http500", "badjson500"} -> 500
                     [] kind = "http404" -> 404
                     [] OTHER -> 200,
        parses |-> kind \notin {"badjson", "badjson500"},
        data |-> Body(srv, p),
        requestId |-> IF kind = "http404" THEN JNull ELSE JStr("req-" \o Token(p))]

(***************************************************************************)
(* BCClient.request and ApiPage.list / findOne.  A call's record holds:    *)
(*   pc         created | awaitToken | awaitFetch | awaitJson | awaitParse *)
(*              | yielded | done | failed | returned                       *)
(*   skipToken, itemCount, more   the locals of list()                     *)
(*   pending    the RequestOpts of the request() in progress               *)
(*   request    the Request handed to fetch()                              *)
(*   resp       the Response fetch() resolved with                         *)
(*   page, idx  data.value and the position of the for..of loop in it      *)
(*   yielded    the rows handed to the caller, in order                    *)
(*   sent       the HTTP requests sent, in order                           *)
(*   tokenCalls the number of auth.getToken() calls                        *)
(*   err        what was thrown to the caller                              *)
(*   found      the settlement of the findOne() promise                    *)
(***************************************************************************)
Iters == {"a", "b"}

NoRequest == [none |-> TRUE]
NoResponse == [none |-> TRUE]
Unsettled == [state |-> "pending"]

\* The logs and counters of the model stop growing at MaxLog.
AppendLog(log, x) == IF Len(log) < MaxLog THEN Append(log, x) ELSE log
Increment(n) == IF n < MaxLog THEN n + 1 ELSE n

\* A generator object that has not run yet
Created ==
    [pc |-> "created", skipToken |-> "", itemCount |-> 0, more |-> TRUE,
     pending |-> NoRequest, resp |-> NoResponse, page |-> <<>>, idx |-> 0,
     request |-> NoRequest, yielded |-> <<>>, sent |-> <<>>, tokenCalls |-> 0,
     err |-> NoError, found |-> Unsettled]

\* A call that is never made
NotCalled == [Created EXCEPT !.pc = "none"]

\* A plausible slip: a retryable error makes the call ask for a token again
Fail_Retry(s, e) ==
    IF e.type = "BCError" /\ e.retryStrategy # "NO_RETRY"
    THEN [s EXCEPT !.tokenCalls = Increment(@), !.pc = "awaitToken"]
    ELSE [s EXCEPT !.pc = "failed", !.err = e]

\* throw e, out of the generator
Fail(s, e) == [s EXCEPT !.pc = "failed", !.err = e]

\* request(endpoint, opts) up to `await this.#getToken()`
RequestStart(s, reqOpts) ==
    [s EXCEPT !.pending = reqOpts,
              !.tokenCalls = Increment(@),
              !.pc = "awaitToken"]

\* The RequestOpts list() builds for the next page
ListRequestOpts_NoCursor(s, o) ==
    [method |-> JUndef,
     serverPageSize |-> o.pOpts.serverPageLimit,
     params |-> URLSearchParams[o.query]]

\* A plausible slip: the request for a later page carries the cursor alone
ListRequestOpts_CursorOnly(s, o) ==
    [method |-> JUndef,
     serverPageSize |-> o.pOpts.serverPageLimit,
     params |-> IF s.skipToken # ""
                THEN <<<<"$skipToken", s.skipToken>>>>
                ELSE URLSearchParams[o.query]]

ListRequestOpts(s, o) ==
    [method |-> JUndef,
     serverPageSize |-> o.pOpts.serverPageLimit,
     params |-> IF s.skipToken # ""
                THEN Append(URLSearchParams[o.query], <<"$skipToken", s.skipToken>>)
                ELSE URLSearchParams[o.query]]

\* while (more) { ... await this.client.request(this.endpoint, opts)
ListLoop(s, o) ==
    IF s.more
    THEN RequestStart(s, ListRequestOpts(s, o))
    ELSE [s EXCEPT !.pc = "done"]

\* A plausible slip: the read-only intent is declared whatever the method
Headers_AlwaysReadOnly(reqOpts, token) ==
    ("Authorization" :> ("Bearer " \o token))
    @@ ("Accepts" :> "application/json")
    @@ ("Content-Type" :> "application/json")
    @@ ("Data-Access-Intent" :> "ReadOnly")
    @@ (IF reqOpts.method = JStr("PATCH") THEN "If-Match" :> "*" ELSE <<>>)
    @@ (IF Truthy(reqOpts.serverPageSize)
        THEN "Prefer" :> ("odata.maxpagesize=" \o ToString(reqOpts.serverPageSize.n))
        ELSE <<>>)

\* The headers request() sets
Headers(reqOpts, token) ==
    LET method == IF reqOpts.method.t = "undefined" THEN "GET" ELSE reqOpts.method.s
    IN ("Authorization" :> ("Bearer " \o token))
       @@ ("Accepts" :> "application/json")
       @@ ("Content-Type" :> "application/json")
       @@ (IF method = "GET" THEN "Data-Access-Intent" :> "ReadOnly" ELSE <<>>)
       @@ (IF method = "PATCH" THEN "If-Match" :> "*" ELSE <<>>)
       @@ (IF Truthy(reqOpts.serverPageSize)
           THEN "Prefer" :> ("odata.maxpagesize=" \o ToString(reqOpts.serverPageSize.n))
           ELSE <<>>)

\* new Request(url, init).  The params of the RequestOpts are the query the URL
\* carries (request() applies them with params.toQuery(); list() builds them
\* with new URLSearchParams(query)).
Request(reqOpts, token) ==
    [method |-> IF reqOpts.method.t = "undefined" THEN "GET" ELSE reqOpts.method.s,
     params |-> reqOpts.params,
     headers |-> Headers(reqOpts, token)]

\* request() from the token to fetch(request)
TokenResolved(s, token) ==
    [s EXCEPT !.request = Request(s.pending, token),
              !.sent = AppendLog(@, Request(s.pending, token)),
              !.pc = "awaitFetch"]

TokenRejected(s, rejection) == Fail(s, TokenFailure(rejection))

\* request() from the response to response.json()
FetchResolved(s, response) ==
    [s EXCEPT !.resp = response, !.pc = "awaitJson"]

FetchRejected(s, networkError) == Fail(s, fromNetworkError(networkError))

\* response.headers.get("request-id") || ""
CorrelationId(response) ==
    IF Truthy(response.requestId) THEN response.requestId ELSE JStr("")

\* A plausible slip: the status is looked at before the body is parsed
JsonRejected_StatusFirst(s, jsonError) ==
    IF s.resp.status < 200 \/ s.resp.status > 299
    THEN Fail(s, fromHttpResponse(s.resp.status, JNull, CorrelationId(s.resp)))
    ELSE Fail(s, fromJsonError(jsonError, s.resp.status, CorrelationId(s.resp)))

JsonRejected(s, jsonError) ==
    Fail(s, fromJsonError(jsonError, s.resp.status, CorrelationId(s.resp)))

ResponseOk(response) == response.status >= 200 /\ response.status <= 299

\* list() from the envelope check to the first parseSchema of the page, with the
\* cursor read before the envelope is checked
ListOnData_CursorFirst(s, o, data) ==
    IF GetThrows(data) THEN Fail(s, TypeError)
    ELSE LET link == Get(data, "@odata.nextLink")
             s1 == IF Truthy(link)
                   THEN [s EXCEPT !.skipToken = SkipTokenOfLink[link.s]]
                   ELSE s
         IN IF ~Truthy(Get(data, "value")) \/ ~IsArray(Get(data, "value"))
            THEN Fail(s1, [fromSchemaValidation(
                              <<[message |-> "Missing value property on list response.",
                                 path |-> "root.value"]>>, JUndef)
                           EXCEPT !.responseData = data])
            ELSE IF Len(Get(data, "value").a) = 0
                 THEN [s1 EXCEPT !.more = FALSE, !.pc = "done"]
                 ELSE [s1 EXCEPT !.page = Get(data, "value").a, !.idx = 1,
                                 !.pc = "awaitParse"]

\* A plausible slip: a page without a continuation link is taken as the last
ListOnData_EndWithoutLink(s, o, data) ==
    IF GetThrows(data) THEN Fail(s, TypeError)
    ELSE IF ~Truthy(Get(data, "value")) \/ ~IsArray(Get(data, "value"))
    THEN Fail(s, [fromSchemaValidation(
                     <<[message |-> "Missing value property on list response.",
                        path |-> "root.value"]>>, JUndef)
                  EXCEPT !.responseData = data])
    ELSE LET link == Get(data, "@odata.nextLink")
             s1 == IF Truthy(link)
                   THEN [s EXCEPT !.skipToken = SkipTokenOfLink[link.s]]
                   ELSE [s EXCEPT !.more = FALSE]
         IN IF Len(Get(data, "value").a) = 0
            THEN [s1 EXCEPT !.more = FALSE, !.pc = "done"]
            ELSE [s1 EXCEPT !.page = Get(data, "value").a, !.idx = 1,
                            !.pc = "awaitParse"]

\* A plausible slip: a link without a readable skipToken leaves the cursor as
\* it was
ListOnData_KeepCursor(s, o, data) ==
    IF GetThrows(data) THEN Fail(s, TypeError)
    ELSE IF ~Truthy(Get(data, "value")) \/ ~IsArray(Get(data, "value"))
    THEN Fail(s, [fromSchemaValidation(
                     <<[message |-> "Missing value property on list response.",
                        path |-> "root.value"]>>, JUndef)
                  EXCEPT !.responseData = data])
    ELSE LET link == Get(data, "@odata.nextLink")
             s1 == IF Truthy(link) /\ SkipTokenOfLink[link.s] # ""
                   THEN [s EXCEPT !.skipToken = SkipTokenOfLink[link.s]]
                   ELSE s
         IN IF Len(Get(data, "value").a) = 0
            THEN [s1 EXCEPT !.more = FALSE, !.pc = "done"]
            ELSE [s1 EXCEPT !.page = Get(data, "value").a, !.idx = 1,
                            !.pc = "awaitParse"]

\* list() from the envelope check to the first parseSchema of the page
ListOnData(s, o, data) ==
    IF GetThrows(data) THEN Fail(s, TypeError)
    ELSE IF ~Truthy(Get(data, "value")) \/ ~IsArray(Get(data, "value"))
    THEN Fail(s, [fromSchemaValidation(
                     <<[message |-> "Missing value property on list response.",
                        path |-> "root.value"]>>, JUndef)
                  EXCEPT !.responseData = data])
    ELSE LET link == Get(data, "@odata.nextLink")
             s1 == IF Truthy(link)
                   THEN [s EXCEPT !.skipToken = SkipTokenOfLink[link.s]]
                   ELSE s
         IN IF Len(Get(data, "value").a) = 0
            THEN [s1 EXCEPT !.more = FALSE, !.pc = "done"]
            ELSE [s1 EXCEPT !.page = Get(data, "value").a, !.idx = 1,
                            !.pc = "awaitParse"]

\* request() from the parsed body to its return, then list() on the data
JsonResolved(s, o) ==
    IF ~ResponseOk(s.resp)
    THEN Fail(s, fromHttpResponse(s.resp.status, s.resp.data, CorrelationId(s.resp)))
    ELSE ListOnData(s, o, s.resp.data)

\* A plausible slip: the next page is asked for as soon as the last row of
\* the page is yielded, before the caller pulls again
ParseResolved_Prefetch(s, o) ==
    LET result == parseSchema(s.page[s.idx])
    IN IF "issues" \in DOMAIN result
       THEN Fail(s, fromSchemaValidation(result.issues, JUndef))
       ELSE [s EXCEPT !.yielded = AppendLog(@, result.data), !.pc = "yielded",
                      !.tokenCalls = IF s.idx = Len(s.page) THEN Increment(@) ELSE @]

\* list() from a parseSchema result to the yield
ParseResolved(s, o) ==
    LET result == parseSchema(s.page[s.idx])
    IN IF "issues" \in DOMAIN result
       THEN Fail(s, fromSchemaValidation(result.issues, JUndef))
       ELSE [s EXCEPT !.yielded = AppendLog(@, result.data), !.pc = "yielded"]

\* The cap test of list(): pOpts?.maxResults && itemCount >= pOpts.maxResults
CapReached_Late(o, count) ==
    Truthy(o.pOpts.maxResults) /\ count > o.pOpts.maxResults.n

\* A plausible slip: the cap is tested for presence, so that 0 is a cap
CapReached_ZeroIsCap(o, count) ==
    o.pOpts.maxResults # JUndef /\ count >= o.pOpts.maxResults.n

CapReached(o, count) ==
    Truthy(o.pOpts.maxResults) /\ count >= o.pOpts.maxResults.n

\* list() resumed after a yield: count the row, test the cap, go on with the
\* page or with the next request
Resumed(s, o) ==
    LET s1 == [s EXCEPT !.itemCount = Increment(@)]
    IN IF CapReached(o, s1.itemCount)
       THEN ListLoop([s1 EXCEPT !.more = FALSE], o)
       ELSE IF s1.idx < Len(s1.page)
            THEN [s1 EXCEPT !.idx = @ + 1, !.pc = "awaitParse"]
            ELSE ListLoop(s1, o)

\* The arguments findOne(query) passes to list()
FindOneOpts(query) ==
    [mode |-> "findOne", query |-> query,
     pOpts |-> [maxResults |-> JUndef, serverPageLimit |-> JNum(1)]]

(***************************************************************************)
(* Inputs.                                                                 *)
(***************************************************************************)
\* What auth.getToken() rejects with: an Error, a string, undefined
TokenRejections ==
    {JObj("message" :> JStr("OAuth server returned 400: invalid_grant")),
     JStr("Network timeout during token request"),
     JUndef}

\* What fetch() rejects with
NetworkErrors ==
    {JObj("message" :> JStr("fetch failed")),
     JObj(("message" :> JStr("connect ECONNREFUSED 127.0.0.1:443"))
          @@ ("code" :> JStr("ECONNREFUSED"))),
     JObj(("message" :> JStr("getaddrinfo ENOTFOUND api.businesscentral.dynamics.com"))
          @@ ("code" :> JStr("ENOTFOUND")))}

\* What response.json() rejects with
JsonError == JObj("message" :> JStr("Unexpected end of JSON input"))

Caps == {JUndef} \cup {JNum(n) : n \in 0..MaxCap}

\* list(query, pOpts) as the callers of the tests make it: without arguments
\* but for a cap, or with a query and a server page limit
ListCalls ==
    {[mode |-> "list", query |-> "",
      pOpts |-> [maxResults |-> m, serverPageLimit |-> JUndef]] : m \in Caps}
    \cup
    {[mode |-> "list", query |-> "$expand=salesOrderLines",
      pOpts |-> [maxResults |-> m, serverPageLimit |-> JNum(2)]] : m \in Caps}

FindOneCalls == {FindOneOpts("$filter=number eq 'DOES_NOT_EXIST'")}

Unused == [mode |-> "none"]

\* The token auth.getToken() resolves with: a new one at every call
FreshToken(s) == "token-" \o ToString(s.tokenCalls)

(***************************************************************************)
(* Actions: one per resumption of a suspended call.                        *)
(***************************************************************************)
\* The caller asks for the next row: next() on the generator
Pull(i) ==
    /\ \/ gen[i].pc = "created"
       \/ gen[i].pc = "yielded" /\ opts[i].mode = "list"
    /\ gen' = [gen EXCEPT ![i] = IF gen[i].pc = "created"
                                 THEN ListLoop(gen[i], opts[i])
                                 ELSE Resumed(gen[i], opts[i])]
    /\ UNCHANGED <<server, opts, call, out>>

\* The caller leaves its for await loop: return() on the generator
Break(i) ==
    /\ gen[i].pc = "yielded" /\ opts[i].mode = "list"
    /\ gen' = [gen EXCEPT ![i].pc = "returned"]
    /\ UNCHANGED <<server, opts, call, out>>

TokenResolve(i) ==
    /\ gen[i].pc = "awaitToken"
    /\ gen' = [gen EXCEPT ![i] = TokenResolved(gen[i], FreshToken(gen[i]))]
    /\ UNCHANGED <<server, opts, call, out>>

TokenReject(i) ==
    /\ gen[i].pc = "awaitToken"
    /\ \E rejection \in TokenRejections :
          gen' = [gen EXCEPT ![i] = TokenRejected(gen[i], rejection)]
    /\ UNCHANGED <<server, opts, call, out>>

FetchResolve(i) ==
    /\ gen[i].pc = "awaitFetch"
    /\ gen' = [gen EXCEPT ![i] = FetchResolved(gen[i], Respond(server, gen[i].request))]
    /\ UNCHANGED <<server, opts, call, out>>

FetchReject(i) ==
    /\ gen[i].pc = "awaitFetch"
    /\ \E networkError \in NetworkErrors :
          gen' = [gen EXCEPT ![i] = FetchRejected(gen[i], networkError)]
    /\ UNCHANGED <<server, opts, call, out>>

\* A plausible slip: the cursor kept on the ApiPage instead of in the generator
JsonResolve_SharedCursor(i) ==
    /\ gen[i].pc = "awaitJson"
    /\ gen[i].resp.parses
    /\ gen' = [j \in Iters |->
                  IF j = i THEN JsonResolved(gen[i], opts[i])
                  ELSE [gen[j] EXCEPT !.skipToken =
                                          JsonResolved(gen[i], opts[i]).skipToken]]
    /\ UNCHANGED <<server, opts, call, out>>

JsonResolve(i) ==
    /\ gen[i].pc = "awaitJson"
    /\ gen[i].resp.parses
    /\ gen' = [gen EXCEPT ![i] = JsonResolved(gen[i], opts[i])]
    /\ UNCHANGED <<server, opts, call, out>>

JsonReject(i) ==
    /\ gen[i].pc = "awaitJson"
    /\ ~gen[i].resp.parses
    /\ gen' = [gen EXCEPT ![i] = JsonRejected(gen[i], JsonError)]
    /\ UNCHANGED <<server, opts, call, out>>

ParseResolve(i) ==
    /\ gen[i].pc = "awaitParse"
    /\ gen' = [gen EXCEPT ![i] = ParseResolved(gen[i], opts[i])]
    /\ UNCHANGED <<server, opts, call, out>>

\* findOne with the break left out: the loop runs on and keeps the last row
FindOneTake_NoBreak(i) ==
    /\ gen[i].pc = "yielded" /\ opts[i].mode = "findOne"
    /\ gen' = [gen EXCEPT ![i] =
                  [Resumed(gen[i], opts[i]) EXCEPT !.found =
                      [state |-> "resolved", isNull |-> FALSE,
                       value |-> gen[i].yielded[Len(gen[i].yielded)]]]]
    /\ UNCHANGED <<server, opts, call, out>>

\* findOne: found = item; break; return found
FindOneTake(i) ==
    /\ gen[i].pc = "yielded" /\ opts[i].mode = "findOne"
    /\ gen' = [gen EXCEPT ![i].pc = "returned",
                          ![i].found = [state |-> "resolved", isNull |-> FALSE,
                                        value |-> gen[i].yielded[Len(gen[i].yielded)]]]
    /\ UNCHANGED <<server, opts, call, out>>

\* findOne: the sequence ended without a row; return found (null)
FindOneNull(i) ==
    /\ gen[i].pc = "done" /\ opts[i].mode = "findOne"
    /\ gen[i].found.state = "pending"
    /\ gen' = [gen EXCEPT ![i].found = [state |-> "resolved", isNull |-> TRUE,
                                        value |-> JNull]]
    /\ UNCHANGED <<server, opts, call, out>>

\* findOne: the error of list() rejects the promise
FindOneReject(i) ==
    /\ gen[i].pc = "failed" /\ opts[i].mode = "findOne"
    /\ gen[i].found.state = "pending"
    /\ gen' = [gen EXCEPT ![i].found = [state |-> "rejected", isNull |-> FALSE,
                                        value |-> gen[i].err]]
    /\ UNCHANGED <<server, opts, call, out>>

NoCall == [fn |-> "none"]
NoResult == [none |-> TRUE]

\* One call of list() or findOne() against any server
Init ==
    /\ server \in Servers
    /\ opts \in {[i \in Iters |-> IF i = "a" THEN c ELSE Unused] :
                    c \in ListCalls \cup FindOneCalls}
    /\ gen = [i \in Iters |-> IF i = "a" THEN Created ELSE NotCalled]
    /\ call = NoCall
    /\ out = NoResult

Next ==
    \E i \in Iters :
        \/ Pull(i)
        \/ Break(i)
        \/ TokenResolve(i)
        \/ TokenReject(i)
        \/ FetchResolve(i)
        \/ FetchReject(i)
        \/ JsonResolve(i)
        \/ JsonReject(i)
        \/ ParseResolve(i)
        \/ FindOneTake(i)
        \/ FindOneNull(i)
        \/ FindOneReject(i)

Spec == Init /\ [][Next]_vars

\* A caller that keeps pulling and awaits that all settle, against the small
\* servers.
FairServers ==
    {srv \in Servers :
        /\ srv.pages <= 1 /\ srv.size = 1
        /\ srv.defect.kind \in {"none", "nolink", "badjson"}}

FairCalls ==
    {c \in ListCalls : c.pOpts.maxResults \in {JUndef, JNum(1)} /\ c.query = ""}
    \cup FindOneCalls

FairInit ==
    /\ server \in FairServers
    /\ opts \in {[i \in Iters |-> IF i = "a" THEN c ELSE Unused] : c \in FairCalls}
    /\ gen = [i \in Iters |-> IF i = "a" THEN Created ELSE NotCalled]
    /\ call = NoCall
    /\ out = NoResult

FairSpec == FairInit /\ [][Next]_vars /\ WF_vars(Next)

(***************************************************************************)
(* Two calls running concurrently on one ApiPage.                          *)
(***************************************************************************)
ConcServers ==
    {srv \in Servers :
        \/ srv.pages = 0 /\ srv.defect.kind = "none"
        \/ /\ srv.pages = 2 /\ srv.size = 2
           /\ srv.defect.kind \in {"none", "nolink", "badjson"}}

ConcCallsA ==
    {c \in ListCalls : c.pOpts.maxResults \in {JUndef, JNum(1)} /\ c.query # ""}

ConcCallsB ==
    {c \in ListCalls : c.pOpts.maxResults = JNum(MaxCap) /\ c.query = ""}
    \cup FindOneCalls

ConcInit ==
    /\ server \in ConcServers
    /\ opts \in {[i \in Iters |-> IF i = "a" THEN ca ELSE cb] :
                    ca \in ConcCallsA, cb \in ConcCallsB}
    /\ gen = [i \in Iters |-> Created]
    /\ call = NoCall
    /\ out = NoResult

ConcSpec == ConcInit /\ [][Next]_vars

Terminal == {"done", "failed", "returned"}

\* A call run alone, with every await resolved and a caller that keeps pulling
\* (findOne takes the first row and returns).
SoloStep(srv, o, s) ==
    CASE s.pc = "created" -> ListLoop(s, o)
      [] s.pc = "awaitToken" -> TokenResolved(s, FreshToken(s))
      [] s.pc = "awaitFetch" -> FetchResolved(s, Respond(srv, s.request))
      [] s.pc = "awaitJson" -> IF s.resp.parses THEN JsonResolved(s, o)
                               ELSE JsonRejected(s, JsonError)
      [] s.pc = "awaitParse" -> ParseResolved(s, o)
      [] s.pc = "yielded" -> IF o.mode = "findOne" THEN [s EXCEPT !.pc = "returned"]
                             ELSE Resumed(s, o)
      [] OTHER -> s

\* The steps of one request and its page, and the requests the logs hold
SoloSteps == 2 * MaxPageSize + 4
SoloRounds == MaxLog + 1

RECURSIVE SoloPage(_, _, _, _)
SoloPage(srv, o, s, steps) ==
    IF steps = 0 \/ s.pc \in Terminal THEN s
    ELSE SoloPage(srv, o, SoloStep(srv, o, s), steps - 1)

RECURSIVE SoloRun(_, _, _, _)
SoloRun(srv, o, s, rounds) ==
    IF rounds = 0 \/ s.pc \in Terminal THEN s
    ELSE SoloRun(srv, o, SoloPage(srv, o, s, SoloSteps), rounds - 1)

Solo ==
    [srv \in ConcServers, o \in ConcCallsA \cup ConcCallsB |->
        SoloRun(srv, o, Created, SoloRounds)]

IsPrefix(a, b) == Len(a) <= Len(b) /\ SubSeq(b, 1, Len(a)) = a

(***************************************************************************)
(* The error module on its own: one call of the categorizer, of the        *)
(* constructor or of a factory.                                            *)
(***************************************************************************)
Codes ==
    DOMAIN ERROR_CODE_MAPPINGS
    \cup {"BadRequest_Unknown", "Request_Unknown", "Internal_Unknown",
          "Application_CustomValidationError", "Authentication_Expired",
          "Authorization_Denied"}
    \cup {"", "Unknown_ErrorCode", "internal_ServerError", "XInternal_ServerError",
          "Client_NetworkError", "Client_JSONParsingError", "Client_SchemaMismatch",
          "Client_UnexpectedResponseFormat"}

Statuses == {400, 401, 404, 409, 500, 503}

ErrorBodies ==
    {JObj("error" :> JObj(("code" :> JStr(c)) @@ ("message" :> JStr("Vendor message"))))
        : c \in Codes}
    \cup {JObj("error" :> JObj(("code" :> JStr("Internal_ServerError"))
                                @@ ("message" :> JStr(""))))}
    \cup {JNull, JStr("Bad Gateway"), JObj("notAnError" :> JStr("invalid format")),
          JObj("error" :> JNull),
          JObj("error" :> JObj("code" :> JStr("Internal_ServerError"))),
          JObj("error" :> JObj(("code" :> JNum(500)) @@ ("message" :> JStr("m")))),
          JObj("error" :> JObj(("code" :> JStr("Internal_ServerError"))
                               @@ ("message" :> JNum(1))))}

NodeCodes ==
    {"EAI_NONAME", "ECONNREFUSED", "ETIMEDOUT", "ESOCKETTIMEDOUT", "ECONNRESET",
     "EPIPE", "ENOTFOUND", "CERT_HAS_EXPIRED", "UNABLE_TO_VERIFY_LEAF_SIGNATURE",
     "SELF_SIGNED_CERT_IN_CHAIN", "EHOSTUNREACH"}

AllNetworkErrors ==
    NetworkErrors
    \cup {JObj(("message" :> JStr("request failed")) @@ ("code" :> JStr(c))) : c \in NodeCodes}

Issues ==
    {<<>>,
     <<[message |-> "Invalid input: expected number", path |-> "id"]>>,
     <<[message |-> "Missing value property on list response.", path |-> "root.value"]>>,
     <<[message |-> "Required", path |-> "root"],
       [message |-> "Invalid input: expected string", path |-> "customer.name"]>>}

CorrelationIds == {JUndef, JStr(""), JStr("req-123")}

ErrCalls ==
    {[fn |-> "categorizeError", code |-> c] : c \in Codes}
    \cup {[fn |-> "BCError", code |-> c, message |-> m, httpStatus |-> st, correlationId |-> cid]
            : c \in Codes, m \in {JStr("Vendor message"), JStr(""), JUndef},
              st \in {400}, cid \in CorrelationIds}
    \cup {[fn |-> "fromHttpResponse", status |-> st, data |-> d, correlationId |-> cid]
            : st \in Statuses, d \in ErrorBodies, cid \in {JStr(""), JStr("req-123")}}
    \cup {[fn |-> "fromNetworkError", networkError |-> e] : e \in AllNetworkErrors}
    \cup {[fn |-> "fromJsonError", jsonError |-> JsonError, httpStatus |-> st, correlationId |-> cid]
            : st \in Statuses \cup {200}, cid \in CorrelationIds}
    \cup {[fn |-> "fromParseResult", issues |-> is, statusArg |-> st, correlationId |-> cid]
            : is \in Issues, st \in {JUndef, JNum(200), JNum(400)}, cid \in CorrelationIds}
    \cup {[fn |-> "fromUnexpectedResponse", data |-> d, httpStatus |-> st, correlationId |-> JUndef]
            : d \in {JNull, JStr("<html>"), JObj("notAnError" :> JStr("invalid format"))},
              st \in Statuses}
    \cup {[fn |-> "fromSchemaValidation", issues |-> is, statusArg |-> st]
            : is \in Issues, st \in {JUndef, JNum(200)}}
    \cup {[fn |-> "getToken", rejection |-> r] : r \in TokenRejections}

Categorize ==
    /\ call.fn = "categorizeError" /\ out = NoResult
    /\ out' = categorizeError(call.code)
    /\ UNCHANGED <<server, opts, gen, call>>

Construct ==
    /\ call.fn = "BCError" /\ out = NoResult
    /\ out' = BCErrorNew([code |-> call.code, message |-> call.message],
                         call.httpStatus, call.correlationId)
    /\ UNCHANGED <<server, opts, gen, call>>

FromHttpResponse ==
    /\ call.fn = "fromHttpResponse" /\ out = NoResult
    /\ out' = fromHttpResponse(call.status, call.data, call.correlationId)
    /\ UNCHANGED <<server, opts, gen, call>>

FromNetworkError ==
    /\ call.fn = "fromNetworkError" /\ out = NoResult
    /\ out' = fromNetworkError(call.networkError)
    /\ UNCHANGED <<server, opts, gen, call>>

FromJsonError ==
    /\ call.fn = "fromJsonError" /\ out = NoResult
    /\ out' = fromJsonError(call.jsonError, call.httpStatus, call.correlationId)
    /\ UNCHANGED <<server, opts, gen, call>>

FromParseResult ==
    /\ call.fn = "fromParseResult" /\ out = NoResult
    /\ out' = fromParseResult(call.issues, call.statusArg, call.correlationId)
    /\ UNCHANGED <<server, opts, gen, call>>

FromUnexpectedResponse ==
    /\ call.fn = "fromUnexpectedResponse" /\ out = NoResult
    /\ out' = fromUnexpectedResponse(call.data, call.httpStatus, call.correlationId)
    /\ UNCHANGED <<server, opts, gen, call>>

FromSchemaValidation ==
    /\ call.fn = "fromSchemaValidation" /\ out = NoResult
    /\ out' = fromSchemaValidation(call.issues, call.statusArg)
    /\ UNCHANGED <<server, opts, gen, call>>

GetTokenCatch ==
    /\ call.fn = "getToken" /\ out = NoResult
    /\ out' = TokenFailure(call.rejection)
    /\ UNCHANGED <<server, opts, gen, call>>

ErrInit ==
    /\ server = [pages |-> 0, size |-> 1, defect |-> NoDefect]
    /\ opts = [i \in Iters |-> Unused]
    /\ gen = [i \in Iters |-> NotCalled]
    /\ call \in ErrCalls
    /\ out = NoResult

ErrNext ==
    \/ Categorize
    \/ Construct
    \/ FromHttpResponse
    \/ FromNetworkError
    \/ FromJsonError
    \/ FromParseResult
    \/ FromUnexpectedResponse
    \/ FromSchemaValidation
    \/ GetTokenCatch

ErrSpec == ErrInit /\ [][ErrNext]_vars

(***************************************************************************)
(* ApiPage.getById, update and create, through BCClient.requestWithSchema. *)
(* The server is the route the request hits: the response it is set to     *)
(* give.  A call's record is that of list(): page holds the body handed to *)
(* parseSchema, found the settlement of the promise.                       *)
(***************************************************************************)
GoodItem == JObj("id" :> JNum(1))

LinedItem(quantity) ==
    JObj(("id" :> JNum(1))
         @@ ("salesOrderLines" :> JArr(<<JObj("quantity" :> quantity)>>)))

ErrorBody(code) ==
    JObj("error" :> JObj(("code" :> JStr(code)) @@ ("message" :> JStr("Vendor message"))))

Route(status, body, malformedResponse, requestId) ==
    [page |-> 0, status |-> status, parses |-> ~malformedResponse, data |-> body,
     requestId |-> requestId]

Routes ==
    {Route(200, GoodItem, FALSE, JStr("req-1")),
     Route(201, GoodItem, FALSE, JStr("req-1")),
     Route(200, LinedItem(JNum(2)), FALSE, JStr("req-1")),
     Route(200, LinedItem(JStr("two")), FALSE, JStr("req-1")),
     Route(200, JObj("id" :> JStr("not-a-number")), FALSE, JStr("req-1")),
     Route(200, JNull, FALSE, JNull),
     Route(200, JNull, TRUE, JStr("req-1")),
     Route(204, JNull, TRUE, JStr("req-1")),
     Route(400, ErrorBody("BadRequest_Unknown"), FALSE, JStr("req-1")),
     Route(404, ErrorBody("BadRequest_NotFound"), FALSE, JStr("req-1")),
     Route(500, ErrorBody("Internal_ServerError"), FALSE, JNull),
     Route(500, GoodItem, FALSE, JStr("req-1")),
     Route(502, JStr("Bad Gateway"), FALSE, JNull),
     Route(500, JNull, TRUE, JStr("req-1"))}

\* client.request(endpoint, opts) called by itself: the methods of RequestOpts,
\* with and without a server page size
RequestCalls ==
    {[mode |-> "request", query |-> "", method |-> m, serverPageSize |-> p] :
        m \in {JUndef, JStr("GET"), JStr("POST"), JStr("PATCH"), JStr("DELETE")},
        p \in {JUndef, JNum(0), JNum(1)}}

ItemCalls ==
    {[mode |-> m, query |-> q] :
        m \in {"getById", "update", "create"}, q \in {"", "$expand=salesOrderLines"}}
    \cup RequestCalls

\* The RequestOpts of a request() called by itself
ClientRequestOpts(o) ==
    [method |-> o.method, serverPageSize |-> o.serverPageSize,
     params |-> URLSearchParams[o.query]]

\* The RequestOpts of getById, update and create
GetByIdOpts(o) ==
    [method |-> JUndef, serverPageSize |-> JUndef, params |-> URLSearchParams[o.query]]

UpdateOpts(o) ==
    [method |-> JStr("PATCH"), serverPageSize |-> JUndef,
     params |-> URLSearchParams[o.query]]

CreateOpts(o) ==
    [method |-> JStr("POST"), serverPageSize |-> JUndef,
     params |-> URLSearchParams[o.query]]

\* requestWithSchema with the validator called whatever the status
RequestReturned_AnyStatus(s) ==
    [s EXCEPT !.page = <<s.resp.data>>, !.idx = 1, !.pc = "awaitParse"]

\* request() from the parsed body to its return, then requestWithSchema up to
\* parseSchema(schema, data)
RequestReturned(s) ==
    IF ~ResponseOk(s.resp)
    THEN Fail(s, fromHttpResponse(s.resp.status, s.resp.data, CorrelationId(s.resp)))
    ELSE [s EXCEPT !.page = <<s.resp.data>>, !.idx = 1, !.pc = "awaitParse"]

\* request() called by itself, from the parsed body to its settlement
RequestSettled(s) ==
    IF ~ResponseOk(s.resp)
    THEN Fail(s, fromHttpResponse(s.resp.status, s.resp.data, CorrelationId(s.resp)))
    ELSE [s EXCEPT !.pc = "returned",
                   !.found = [state |-> "resolved", isNull |-> FALSE,
                              value |-> s.resp.data]]

\* requestWithSchema from the ParseResult to its settlement
SchemaParsed(s) ==
    LET result == parseSchema(s.page[s.idx])
    IN IF "issues" \in DOMAIN result
       THEN Fail(s, fromParseResult(result.issues, JUndef, JUndef))
       ELSE [s EXCEPT !.pc = "returned",
                      !.found = [state |-> "resolved", isNull |-> FALSE,
                                 value |-> result.data]]

GetById(i) ==
    /\ gen[i].pc = "created" /\ opts[i].mode = "getById"
    /\ gen' = [gen EXCEPT ![i] = RequestStart(gen[i], GetByIdOpts(opts[i]))]
    /\ UNCHANGED <<server, opts, call, out>>

Update(i) ==
    /\ gen[i].pc = "created" /\ opts[i].mode = "update"
    /\ gen' = [gen EXCEPT ![i] = RequestStart(gen[i], UpdateOpts(opts[i]))]
    /\ UNCHANGED <<server, opts, call, out>>

Create(i) ==
    /\ gen[i].pc = "created" /\ opts[i].mode = "create"
    /\ gen' = [gen EXCEPT ![i] = RequestStart(gen[i], CreateOpts(opts[i]))]
    /\ UNCHANGED <<server, opts, call, out>>

\* fetch(request) resolves with the response of the route
RouteFetchResolve(i) ==
    /\ gen[i].pc = "awaitFetch"
    /\ gen' = [gen EXCEPT ![i] = FetchResolved(gen[i], server)]
    /\ UNCHANGED <<server, opts, call, out>>

ClientRequest(i) ==
    /\ gen[i].pc = "created" /\ opts[i].mode = "request"
    /\ gen' = [gen EXCEPT ![i] = RequestStart(gen[i], ClientRequestOpts(opts[i]))]
    /\ UNCHANGED <<server, opts, call, out>>

RequestReturn(i) ==
    /\ gen[i].pc = "awaitJson" /\ opts[i].mode # "request"
    /\ gen[i].resp.parses
    /\ gen' = [gen EXCEPT ![i] = RequestReturned(gen[i])]
    /\ UNCHANGED <<server, opts, call, out>>

RequestSettle(i) ==
    /\ gen[i].pc = "awaitJson" /\ opts[i].mode = "request"
    /\ gen[i].resp.parses
    /\ gen' = [gen EXCEPT ![i] = RequestSettled(gen[i])]
    /\ UNCHANGED <<server, opts, call, out>>

SchemaParse(i) ==
    /\ gen[i].pc = "awaitParse"
    /\ gen' = [gen EXCEPT ![i] = SchemaParsed(gen[i])]
    /\ UNCHANGED <<server, opts, call, out>>

\* The caller awaits the promise of a failed call
ItemReject(i) ==
    /\ gen[i].pc = "failed"
    /\ gen[i].found.state = "pending"
    /\ gen' = [gen EXCEPT ![i].found = [state |-> "rejected", isNull |-> FALSE,
                                        value |-> gen[i].err]]
    /\ UNCHANGED <<server, opts, call, out>>

ItemInit ==
    /\ server \in Routes
    /\ opts \in {[i \in Iters |-> IF i = "a" THEN c ELSE Unused] : c \in ItemCalls}
    /\ gen = [i \in Iters |-> IF i = "a" THEN Created ELSE NotCalled]
    /\ call = NoCall
    /\ out = NoResult

ItemNext ==
    \E i \in Iters :
        \/ GetById(i)
        \/ Update(i)
        \/ Create(i)
        \/ ClientRequest(i)
        \/ TokenResolve(i)
        \/ TokenReject(i)
        \/ RouteFetchResolve(i)
        \/ FetchReject(i)
        \/ RequestReturn(i)
        \/ RequestSettle(i)
        \/ JsonReject(i)
        \/ SchemaParse(i)
        \/ ItemReject(i)

ItemSpec == ItemInit /\ [][ItemNext]_vars

(***************************************************************************)
(* Properties of list() and findOne().                                     *)
(***************************************************************************)
\* The rows a server without defects holds, as the row schema transforms them,
\* in server order
AllRows(srv) == [n \in 1..(srv.pages * srv.size) |-> [id |-> n, parsed |-> TRUE]]

UncappedList(i) ==
    opts[i].mode = "list" /\ opts[i].pOpts.maxResults = JUndef

\* A failure that comes from the token provider or the transport
FromEnvironment(e) ==
    \/ e.type = "TypeError"
    \/ e.type = "BCError" /\ e.code \in {"Authentication_TokenRequest", "Client_NetworkError"}

\* How far a call of list() has run: the requests begun, then the position
\* inside the current request and page.
Progress(s) ==
    s.tokenCalls * (2 * MaxPageSize + 4)
    + (CASE s.pc = "awaitFetch" -> 1
         [] s.pc = "awaitJson" -> 2
         [] s.pc = "awaitParse" -> 2 * s.idx + 1
         [] s.pc = "yielded" -> 2 * s.idx + 2
         [] OTHER -> 0)

\* C1: against a server of k non-empty pages, each with a continuation link,
\* followed by an empty page, list() without maxResults yields the rows of the
\* k pages once each and in server order, asks for at most k + 1 pages, fails
\* only when the token provider or the transport fails, and has yielded every
\* row when it completes; every step ends the call or takes it further, within
\* the k + 1 requests, so the call ends.
C1_ListYieldsAllInOrder ==
    /\ [](server.defect = NoDefect /\ UncappedList("a") =>
            /\ IsPrefix(gen["a"].yielded, AllRows(server))
            /\ gen["a"].tokenCalls <= server.pages + 1
            /\ Len(gen["a"].sent) <= server.pages + 1
            /\ gen["a"].pc = "done" =>
                  /\ gen["a"].yielded = AllRows(server)
                  /\ Len(gen["a"].sent) = server.pages + 1
            /\ gen["a"].pc = "failed" => FromEnvironment(gen["a"].err))
    /\ [][server.defect = NoDefect /\ UncappedList("a") =>
            \/ gen["a"]'.pc \in Terminal
            \/ Progress(gen["a"]') > Progress(gen["a"])]_vars

C1_Witness ==
    /\ server.defect = NoDefect /\ server.pages >= 2 /\ server.size >= 2
    /\ UncappedList("a")
    /\ gen["a"].pc = "done"
    /\ Len(gen["a"].yielded) = server.pages * server.size

Ceil(m, p) == (m + p - 1) \div p

CappedList(i) ==
    /\ opts[i].mode = "list"
    /\ opts[i].pOpts.maxResults.t = "number"
    /\ opts[i].pOpts.maxResults.n >= 1

\* C2: list() with maxResults = M >= 1 never yields more than M rows; against
\* a server without defects that holds at least M rows it has yielded M when it
\* completes; once the M-th row is yielded the call is suspended at that yield
\* or over, so no request follows it, also in the middle of a page; with pages
\* of P rows at most ceil(M / P) requests are begun and sent.
C2_CapBoundsItemsAndRequests ==
    CappedList("a") =>
        LET M == opts["a"].pOpts.maxResults.n
        IN /\ Len(gen["a"].yielded) <= M
           /\ (server.defect = NoDefect /\ server.pages * server.size >= M
               /\ gen["a"].pc = "done") => Len(gen["a"].yielded) = M
           /\ Len(gen["a"].yielded) = M => gen["a"].pc \in {"yielded", "done", "returned"}
           /\ gen["a"].tokenCalls <= Ceil(M, server.size)
           /\ Len(gen["a"].sent) <= Ceil(M, server.size)

\* The cap is reached in the middle of the second page.
C2_Witness ==
    /\ CappedList("a") /\ opts["a"].pOpts.maxResults.n = 3
    /\ server.defect = NoDefect /\ server.size = 2 /\ server.pages = 3
    /\ gen["a"].pc = "done"
    /\ Len(gen["a"].yielded) = 3
    /\ Len(gen["a"].sent) = 2

\* C3: list() ends whenever the collection is finite or a cap is given, also
\* when a non-empty page carries no continuation link, with a caller that keeps
\* pulling and awaits that all settle.
C3_ListEventuallyCompletes ==
    (opts["a"].mode = "list" /\ server.defect.kind \in {"none", "nolink"})
        => <>(gen["a"].pc \in Terminal)

\* The cursor a request carries
RequestCursor(request) ==
    IF Truthy(ParamsGet(request.params, "$skipToken"))
    THEN ParamsGet(request.params, "$skipToken").s
    ELSE ""

\* The call has received a 2xx envelope without a value array.
BadEnvelope(s) ==
    /\ s.resp # NoResponse
    /\ s.resp.parses /\ ResponseOk(s.resp)
    /\ s.resp.data.t = "object"
    /\ ~Truthy(Get(s.resp.data, "value")) \/ ~IsArray(Get(s.resp.data, "value"))

\* C4: once list() has taken in a page envelope with no value field, or with a
\* value that is not an array, it has failed with a structured error whose
\* responseData is that envelope; its cursor is still the one the request was
\* sent with, the request of the envelope is the last one begun and sent, and
\* the rows yielded are those of the earlier pages.
C4_BadEnvelopeFailsAtOnce ==
    (BadEnvelope(gen["a"]) /\ gen["a"].pc # "awaitJson") =>
        /\ gen["a"].pc = "failed"
        /\ gen["a"].err.type = "BCError"
        /\ gen["a"].err.responseData = gen["a"].resp.data
        /\ gen["a"].skipToken = RequestCursor(gen["a"].request)
        /\ gen["a"].tokenCalls = gen["a"].resp.page
        /\ Len(gen["a"].sent) = gen["a"].resp.page
        /\ gen["a"].sent[Len(gen["a"].sent)] = gen["a"].request
        /\ Len(gen["a"].yielded) = (gen["a"].resp.page - 1) * server.size
        /\ IsPrefix(gen["a"].yielded, AllRows(server))

\* The envelope of the second page has a continuation link and no value array.
C4_Witness ==
    /\ BadEnvelope(gen["a"]) /\ gen["a"].pc = "failed"
    /\ HasKey(gen["a"].resp.data, "@odata.nextLink")
    /\ gen["a"].resp.page = 2
    /\ Len(gen["a"].yielded) = 2

\* C5: whatever fails, the token provider (also with a rejection that is no
\* Error), the transport, the body, the status, a row or the envelope, what
\* list() throws and what findOne() rejects with is a BCError.
C5_EveryFailureIsBCError ==
    \A i \in Iters :
        /\ gen[i].pc = "failed" => gen[i].err.type = "BCError"
        /\ gen[i].found.state = "rejected" => gen[i].found.value.type = "BCError"

\* C6: with two calls interleaved in any way, the requests each call sends and
\* the rows it yields are a prefix of those of the same call run alone, and a
\* step of one call leaves the record of the other call as it was.
C6_IterationsIndependent ==
    /\ [](\A i \in Iters :
            opts[i].mode # "none" =>
                /\ IsPrefix(gen[i].sent, Solo[server, opts[i]].sent)
                /\ IsPrefix(gen[i].yielded, Solo[server, opts[i]].yielded))
    /\ [][\A i \in Iters :
            gen[i]' # gen[i] => \A j \in Iters \ {i} : gen[j]' = gen[j]]_vars

\* Both calls are past their first page, at different cursors.
C6_Witness ==
    /\ gen["a"].skipToken # gen["b"].skipToken
    /\ gen["a"].skipToken # "" /\ gen["b"].skipToken # ""
    /\ Len(gen["a"].sent) = 2 /\ gen["a"].pc = "awaitFetch"
    /\ Len(gen["b"].sent) = 2 /\ gen["b"].pc = "awaitParse"

\* C7: findOne() sends its requests with the page size hint 1; it resolves to
\* the first row list() yields, and no request follows that row; it resolves to
\* null when list() completes without a row, and rejects only when list() fails.
C7_FindOneFirstOrNull ==
    opts["a"].mode = "findOne" =>
        /\ \A n \in 1..Len(gen["a"].sent) :
              /\ "Prefer" \in DOMAIN gen["a"].sent[n].headers
              /\ gen["a"].sent[n].headers["Prefer"] = "odata.maxpagesize=1"
        /\ Len(gen["a"].yielded) >= 1 =>
              /\ Len(gen["a"].yielded) = 1
              /\ gen["a"].pc \in {"yielded", "returned"}
              /\ gen["a"].tokenCalls = gen["a"].resp.page
        /\ gen["a"].found.state = "resolved" =>
              IF gen["a"].found.isNull
              THEN gen["a"].pc = "done" /\ gen["a"].yielded = <<>>
              ELSE gen["a"].pc = "returned" /\ gen["a"].found.value = gen["a"].yielded[1]
        /\ gen["a"].found.state = "rejected" => gen["a"].pc = "failed"
        /\ gen["a"].pc = "done" => gen["a"].yielded = <<>>
        /\ (gen["a"].pc = "returned" /\ server.defect = NoDefect) =>
              gen["a"].found.value = AllRows(server)[1]

C7_Witness ==
    /\ opts["a"].mode = "findOne"
    /\ server.defect = NoDefect /\ server.pages >= 2 /\ server.size >= 2
    /\ gen["a"].found.state = "resolved" /\ ~gen["a"].found.isNull
    /\ gen["a"].found.value = [id |-> 1, parsed |-> TRUE]
    /\ Len(gen["a"].sent) = 1

(***************************************************************************)
(* Properties of the error module.                                         *)
(***************************************************************************)
\* The category -> strategy table of the specification
StrategyOf(category) ==
    CASE category = "AUTHENTICATION" -> "REFRESH_TOKEN"
      [] category \in {"SERVER_ERROR", "NETWORK_ERROR"} -> "EXPONENTIAL_BACKOFF"
      [] OTHER -> "NO_RETRY"

\* C8: the retry strategy of whatever the categorizer, the constructor or a
\* factory returns is the one the table gives for its category.
C8_RetryStrategyFollowsCategory ==
    "retryStrategy" \in DOMAIN out => out.retryStrategy = StrategyOf(out.category)

HasPrefixDefault(code) ==
    \E n \in 1..Len(PREFIX_DEFAULTS) : StartsWith(code, PREFIX_DEFAULTS[n][1])

SpecPrefixCategory(code) ==
    CASE StartsWith(code, "BadRequest_") \/ StartsWith(code, "Application_") -> "BAD_REQUEST"
      [] StartsWith(code, "Internal_") -> "SERVER_ERROR"
      [] StartsWith(code, "Authentication_") -> "AUTHENTICATION"
      [] StartsWith(code, "Authorization_") -> "AUTHORIZATION"
      [] StartsWith(code, "Request_") -> "CONFLICT"
      [] OTHER -> "UNKNOWN"

\* C10: a code that is no key of the exact table gets the category of its
\* prefix: BAD_REQUEST for BadRequest_ and Application_, SERVER_ERROR for
\* Internal_, AUTHENTICATION for Authentication_, AUTHORIZATION for
\* Authorization_, CONFLICT for Request_.
C10_PrefixDefaults ==
    (/\ call.fn \in {"categorizeError", "BCError"} /\ out # NoResult
     /\ call.code \notin DOMAIN ERROR_CODE_MAPPINGS
     /\ SpecPrefixCategory(call.code) # "UNKNOWN")
        => out.category = SpecPrefixCategory(call.code)

(***************************************************************************)
(* Properties of the factories.                                            *)
(***************************************************************************)
\* e[name] in JavaScript: a property that was never assigned reads as undefined
Prop(e, name) == IF name \in DOMAIN e THEN e[name] ELSE JUndef

\* sub occurs in s
Contains(s, sub) ==
    \E k \in 1..(Len(s) - Len(sub) + 1) : SubSeq(s, k, k + Len(sub) - 1) = sub

\* fromHttpResponse has returned for a body of the shape {error: {code, message}}
WellFormedBody ==
    call.fn = "fromHttpResponse" /\ out # NoResult /\ validErrorResponse(call.data)

\* fromHttpResponse has returned for a body of any other shape
MalformedBody ==
    call.fn = "fromHttpResponse" /\ out # NoResult /\ ~validErrorResponse(call.data)

\* C11: the error built from an HTTP response with a body {error: {code,
\* message}} has the category and the retry strategy categorizeError gives
\* for code, carries serverError = {code, message}, the given status as
\* httpStatus, the given correlation id, and message as its message; for
\* Internal_ServerError at status 500 it is SERVER_ERROR, EXPONENTIAL_BACKOFF
\* and retryable.
C11_HttpErrorCarriesServerError ==
    WellFormedBody =>
        LET error == Get(call.data, "error")
            code == Get(error, "code").s
        IN /\ out.category = categorizeError(code).category
           /\ out.retryStrategy = categorizeError(code).retryStrategy
           /\ Prop(out, "serverError") = error
           /\ out.httpStatus = call.status
           /\ out.correlationId = call.correlationId
           /\ out.message = Get(error, "message").s
           /\ (code = "Internal_ServerError" /\ call.status = 500) =>
                 /\ out.category = "SERVER_ERROR"
                 /\ out.retryStrategy = "EXPONENTIAL_BACKOFF"
                 /\ isRetryable(out)

\* C12: the error built from an HTTP response whose body is not of the shape
\* {error: {code, message}} has, at any status, category UNEXPECTED_RESPONSE
\* and strategy NO_RETRY, responseData equal to the body, and no serverError.
C12_MalformedBodyIsUnexpectedResponse ==
    MalformedBody =>
        /\ out.category = "UNEXPECTED_RESPONSE"
        /\ out.retryStrategy = "NO_RETRY"
        /\ Prop(out, "responseData") = call.data
        /\ Prop(out, "serverError") = JUndef

\* C13: the error built from a transport failure is NETWORK_ERROR with
\* EXPONENTIAL_BACKOFF and httpStatus 0 whatever the native code, has no
\* correlation id, and its message contains the native code when there is one.
C13_NetworkErrorAlwaysBackoff ==
    (call.fn = "fromNetworkError" /\ out # NoResult) =>
        LET code == Get(call.networkError, "code")
        IN /\ out.category = "NETWORK_ERROR"
           /\ out.retryStrategy = "EXPONENTIAL_BACKOFF"
           /\ out.httpStatus = 0
           /\ out.correlationId = JUndef
           /\ Truthy(code) => Contains(out.message, code.s)

(***************************************************************************)
(* Properties of request() and requestWithSchema().                        *)
(***************************************************************************)
\* The message of what the token provider rejected with: that of an Error, or
\* the string itself
ProviderMessage(rejection) ==
    CASE rejection.t = "string" -> rejection.s
      [] rejection.t = "object" /\ Get(rejection, "message").t = "string" ->
            Get(rejection, "message").s
      [] OTHER -> ""

\* The error is the one the specification gives for a failed token provider
WrapsTokenFailure(e, rejection) ==
    /\ e.type = "BCError"
    /\ e.category = "AUTHENTICATION"
    /\ e.retryStrategy = "REFRESH_TOKEN"
    /\ e.httpStatus = 401
    /\ Contains(e.message, ProviderMessage(rejection))

\* Every request sent carries the token of the getToken() call made for it
TokenBeforeSend(s) ==
    /\ Len(s.sent) <= s.tokenCalls
    /\ \A k \in 1..Len(s.sent) :
          s.sent[k].headers["Authorization"] = "Bearer token-" \o ToString(k)

\* C14: when the token provider fails during request(), no request is sent and
\* the call fails with a structured error of category AUTHENTICATION, strategy
\* REFRESH_TOKEN and httpStatus 401 whose message wraps the provider's
\* message; the token is always acquired before the send.
C14_TokenFailureIsAuthenticationError ==
    [][\A i \in Iters :
          /\ TokenBeforeSend(gen'[i])
          /\ \A rejection \in TokenRejections :
                (gen[i].pc = "awaitToken" /\ gen'[i] = TokenRejected(gen[i], rejection)) =>
                    /\ gen'[i].pc = "failed"
                    /\ gen'[i].sent = gen[i].sent
                    /\ WrapsTokenFailure(gen'[i].err, rejection)]_vars

\* C15: the error built from N schema-validation issues has category
\* SCHEMA_MISMATCH and strategy NO_RETRY for every N >= 0, validationDetails
\* equal to the issues, hasValidationDetails() = (N > 0), getValidationFields()
\* equal to the N paths in their order, and httpStatus 200 when none is given.
C15_SchemaIssuesError ==
    (call.fn = "fromParseResult" /\ out # NoResult) =>
        /\ out.category = "SCHEMA_MISMATCH"
        /\ out.retryStrategy = "NO_RETRY"
        /\ out.validationDetails = JArr(call.issues)
        /\ hasValidationDetails(out) = (Len(call.issues) > 0)
        /\ getValidationFields(out) = [n \in 1..Len(call.issues) |-> call.issues[n].path]
        /\ call.statusArg = JUndef => out.httpStatus = 200

\* The validator was invoked: requestWithSchema handed a body to parseSchema
Validated(s) == s.page # <<>>

\* The paths the issues of a rejected body carry, joined by "." and "root"
\* when empty
ExpectedPaths(body) ==
    CASE body = JNull -> <<"root">>
      [] body = JObj("id" :> JStr("not-a-number")) -> <<"id">>
      [] body = LinedItem(JStr("two")) -> <<"salesOrderLines.0.quantity">>
      [] OTHER -> <<>>

\* C16: requestWithSchema invokes the validator only after request() has
\* succeeded and never when it failed; when the validator reports no issues
\* the call resolves with the validator's transformed output; when it reports
\* issues the call fails with the schema-validation error (NO_RETRY) whose
\* validationDetails are those issues in order, each path joined by "." and
\* "root" when empty.
C16_ValidatorAfterSuccessfulRequest ==
    \A i \in Iters :
        LET s == gen[i]
            result == SchemaValidate(s.page[1])
        IN /\ Validated(s) =>
                /\ s.resp # NoResponse /\ s.resp.parses /\ ResponseOk(s.resp)
                /\ s.page = <<s.resp.data>>
                /\ Len(s.sent) = 1
           /\ (s.pc = "failed" /\ ~Validated(s)) =>
                Prop(s.err, "validationDetails") = JUndef
           /\ (Validated(s) /\ "value" \in DOMAIN result) =>
                /\ s.pc \in {"awaitParse", "returned"}
                /\ s.pc = "returned" =>
                      /\ s.found.state = "resolved"
                      /\ s.found.value = result.value
           /\ (Validated(s) /\ "issues" \in DOMAIN result) =>
                /\ s.pc \in {"awaitParse", "failed"}
                /\ s.pc = "failed" =>
                      /\ s.err.type = "BCError"
                      /\ s.err.retryStrategy = "NO_RETRY"
                      /\ ~isRetryable(s.err)
                      /\ s.err.validationDetails =
                            JArr([n \in 1..Len(result.issues) |->
                                    [message |-> result.issues[n].message,
                                     path |-> ExpectedPaths(s.resp.data)[n]]])
                      /\ getValidationFields(s.err) = ExpectedPaths(s.resp.data)

C16_Witness ==
    /\ opts["a"].mode = "update"
    /\ gen["a"].pc = "failed" /\ Validated(gen["a"])
    /\ gen["a"].resp.data = LinedItem(JStr("two"))
    /\ gen["a"].err.validationDetails =
          JArr(<<[message |-> "Invalid input: expected number",
                  path |-> "salesOrderLines.0.quantity"]>>)

\* The call failed on an HTTP error response
HttpFailure(s) ==
    /\ s.pc = "failed" /\ ~Validated(s)
    /\ s.resp # NoResponse /\ s.resp.parses /\ ~ResponseOk(s.resp)

\* C17: for getById, update and create a response body that fails schema
\* validation gives an error of category SCHEMA_MISMATCH, and no error built
\* from an HTTP error response has that category.
C17_SchemaFailureHasOwnCategory ==
    \A i \in Iters :
        /\ (gen[i].pc = "failed" /\ Validated(gen[i])) =>
              gen[i].err.category = "SCHEMA_MISMATCH"
        /\ HttpFailure(gen[i]) => gen[i].err.category # "SCHEMA_MISMATCH"

(***************************************************************************)
(* Properties of every structured error.                                   *)
(***************************************************************************)
\* The constructor or a factory of the error class has returned a BCError
Built ==
    /\ call.fn \in {"BCError", "fromHttpResponse", "fromNetworkError", "fromJsonError",
                    "fromParseResult", "fromUnexpectedResponse", "getToken"}
    /\ "type" \in DOMAIN out /\ out.type = "BCError"

\* C18: for every structured error, however it was built, isRetryable() is
\* true exactly when retryStrategy differs from NO_RETRY, and the span
\* attributes report the same retryable flag.
C18_RetryableIffNotNoRetry ==
    Built =>
        /\ out.retryStrategy = "NO_RETRY" => ~isRetryable(out)
        /\ out.retryStrategy \in {"IMMEDIATE_RETRY", "EXPONENTIAL_BACKOFF",
                                  "REFRESH_TOKEN"} => isRetryable(out)
        /\ out.retryStrategy \in {"NO_RETRY", "IMMEDIATE_RETRY", "EXPONENTIAL_BACKOFF",
                                  "REFRESH_TOKEN"}
        /\ toSpanAttributes(out).retryable = isRetryable(out)
        /\ toSpanAttributes(out).retryable = (out.retryStrategy # "NO_RETRY")

C18_Witness ==
    /\ call.fn = "fromHttpResponse" /\ Built
    /\ out.code = "Authentication_Expired"
    /\ out.retryStrategy = "REFRESH_TOKEN"
    /\ isRetryable(out)
    /\ toSpanAttributes(out).retryable

\* C19: in every structured error exactly one of serverError and
\* responseData is populated, never both.
C19_ExactlyOneOfServerErrorAndResponseData ==
    Built =>
        (Prop(out, "serverError") # JUndef) # (Prop(out, "responseData") # JUndef)

\* What the failed operation rejected with
OriginalError ==
    CASE call.fn = "fromNetworkError" -> call.networkError
      [] call.fn = "fromJsonError" -> call.jsonError
      [] call.fn = "getToken" -> call.rejection

\* C20: every structured error that wraps a transport failure, a body-parse
\* failure or a token-provider failure carries the original error as its
\* cause.
C20_WrappedErrorKeepsCause ==
    (call.fn \in {"fromNetworkError", "fromJsonError", "getToken"} /\ Built) =>
        Prop(out, "cause") = OriginalError

RowFailure(s) ==
    /\ s.pc = "failed"
    /\ s.idx >= 1 /\ s.idx <= Len(s.page)
    /\ "issues" \in DOMAIN parseSchema(s.page[s.idx])

\* C22: when a row of a page fails schema validation list() fails at once and
\* no row of that page has been delivered to the caller; the rows of the
\* earlier pages remain delivered.
C22_NoRowOfFailedPageDelivered ==
    RowFailure(gen["a"]) =>
        /\ Len(gen["a"].yielded) = (gen["a"].resp.page - 1) * server.size
        /\ IsPrefix(gen["a"].yielded, AllRows(server))

\* The page list() iterates over is the value array of the response it
\* received last
HoldsLastPage(s) ==
    s.pc \in {"awaitParse", "yielded"} =>
        /\ s.resp # NoResponse
        /\ IsArray(Get(s.resp.data, "value"))
        /\ s.page = Get(s.resp.data, "value").a

\* C23: list() is lazy: a request is begun only when the caller pulls, the
\* first time or past the last row of the page held; the page held is the one
\* of the last response only; while the call is suspended at a yield nothing
\* happens but by the caller, and after an early break no request is issued.
C23_ListIsLazy ==
    /\ [](\A i \in Iters :
            /\ gen[i].pc = "created" => gen[i].tokenCalls = 0 /\ gen[i].sent = <<>>
            /\ HoldsLastPage(gen[i])
            /\ Len(gen[i].page) <= MaxPageSize)
    /\ [][\A i \in Iters :
            /\ gen[i]'.tokenCalls > gen[i].tokenCalls =>
                  /\ Pull(i)
                  /\ \/ gen[i].pc = "created"
                     \/ gen[i].pc = "yielded" /\ gen[i].idx = Len(gen[i].page)
            /\ Len(gen[i]'.sent) > Len(gen[i].sent) => gen[i].pc = "awaitToken"
            /\ (gen[i].pc = "yielded" /\ gen[i]' # gen[i]) =>
                  Pull(i) \/ Break(i) \/ FindOneTake(i)
            /\ gen[i].pc = "returned" => gen[i]' = gen[i]]_vars

\* The caller broke off after the first page of a server with more pages
C23_Witness ==
    /\ opts["a"].mode = "list"
    /\ server.defect = NoDefect /\ server.pages >= 2 /\ server.size = 2
    /\ gen["a"].pc = "returned"
    /\ Len(gen["a"].yielded) = 2
    /\ Len(gen["a"].sent) = 1 /\ gen["a"].tokenCalls = 1

\* The response is a 2xx envelope with a value array
HasValueArray(response) ==
    /\ response.parses /\ ResponseOk(response)
    /\ response.data.t = "object"
    /\ IsArray(Get(response.data, "value"))

EmptyPage(response) ==
    HasValueArray(response) /\ Len(Get(response.data, "value").a) = 0

\* A page with rows and without a continuation link
UnlinkedPage(response) ==
    /\ HasValueArray(response) /\ ~EmptyPage(response)
    /\ ~Truthy(Get(response.data, "@odata.nextLink"))

\* C24: only a response with an empty value array ends an uncapped list(): a
\* page with rows and without a continuation link has its rows yielded and is
\* followed by a request with the unchanged cursor, and no request is ever
\* issued after an empty value array was received.
C24_OnlyEmptyPageEndsList ==
    /\ [](UncappedList("a") =>
            LET s == gen["a"]
            IN /\ s.pc = "done" => EmptyPage(s.resp)
               /\ (s.resp # NoResponse /\ EmptyPage(s.resp) /\ s.pc # "awaitJson") =>
                     s.pc = "done"
               /\ \A k \in 1..(Len(s.sent) - 1) :
                     /\ ~EmptyPage(Respond(server, s.sent[k]))
                     /\ UnlinkedPage(Respond(server, s.sent[k])) =>
                           RequestCursor(s.sent[k + 1]) = RequestCursor(s.sent[k])
               /\ (s.resp # NoResponse /\ UnlinkedPage(s.resp) /\ s.pc = "awaitToken"
                   /\ Len(s.yielded) < MaxLog) =>
                     /\ Len(s.yielded) >= Len(s.page)
                     /\ \A j \in 1..Len(s.page) :
                           s.yielded[Len(s.yielded) - Len(s.page) + j]
                               = parseSchema(s.page[j]).data)
    /\ [][UncappedList("a") /\ gen["a"].pc = "done" => gen["a"]' = gen["a"]]_vars

\* The second page has rows and no link: the third request repeats its cursor
C24_Witness ==
    /\ UncappedList("a")
    /\ server.defect = [page |-> 2, kind |-> "nolink"]
    /\ Len(gen["a"].sent) >= 3
    /\ RequestCursor(gen["a"].sent[2]) = "t2"
    /\ RequestCursor(gen["a"].sent[3]) = "t2"
    /\ Len(gen["a"].yielded) >= 2 * server.size

\* The skipToken of the most recent continuation link among the responses to
\* the first k requests, "" when there is none
RECURSIVE CursorAfter(_, _, _)
CursorAfter(srv, sent, k) ==
    IF k = 0 THEN ""
    ELSE LET link == Get(Respond(srv, sent[k]).data, "@odata.nextLink")
         IN IF Truthy(link) THEN SkipTokenOfLink[link.s]
            ELSE CursorAfter(srv, sent, k - 1)

\* C25: in one list() iteration the first request carries no continuation
\* parameter and every later request carries the skipToken of the most recent
\* continuation link received in that iteration, next to the caller's
\* unchanged query and page-size hint; another list() call starts with an
\* empty cursor whatever cursor the first one holds.
C25_RequestCarriesLatestCursor ==
    \A i \in Iters :
        opts[i].mode # "none" =>
            /\ gen[i].pc = "created" => gen[i].skipToken = ""
            /\ \A k \in 1..Len(gen[i].sent) :
                  LET request == gen[i].sent[k]
                      cursor == CursorAfter(server, gen[i].sent, k - 1)
                  IN /\ k = 1 => ParamsGet(request.params, "$skipToken") = JNull
                     /\ RequestCursor(request) = cursor
                     /\ request.params =
                           IF cursor = "" THEN URLSearchParams[opts[i].query]
                           ELSE Append(URLSearchParams[opts[i].query],
                                       <<"$skipToken", cursor>>)
                     /\ ("Prefer" \in DOMAIN request.headers)
                           = Truthy(opts[i].pOpts.serverPageLimit)
                     /\ "Prefer" \in DOMAIN request.headers =>
                           request.headers["Prefer"] = "odata.maxpagesize="
                               \o ToString(opts[i].pOpts.serverPageLimit.n)

\* Call a is at its second page with its query and hint; call b starts
C25_Witness ==
    /\ Len(gen["a"].sent) = 2
    /\ gen["a"].sent[2].params = <<<<"$expand", "salesOrderLines">>, <<"$skipToken", "t2">>>>
    /\ gen["a"].sent[2].headers["Prefer"] = "odata.maxpagesize=2"
    /\ gen["a"].skipToken = "t2"
    /\ Len(gen["b"].sent) = 1
    /\ gen["b"].sent[1].params = <<>>

(***************************************************************************)
(* Properties of request().                                                *)
(***************************************************************************)
\* C26: the outcome of request() is decided in the order token failure,
\* transport failure, body-parse failure, non-2xx status, success: a body that
\* does not parse gives the parse-failure error with the received status
\* whatever the status; a non-2xx status gives the HTTP-response error only
\* when the body parsed; otherwise the parsed body is returned as it is.
C26_RequestOutcomeOrder ==
    \A i \in Iters :
        LET s == gen[i]
            requestFailed == s.pc = "failed" /\ ~Validated(s)
        IN /\ (requestFailed /\ s.sent = <<>>) =>
                 /\ s.tokenCalls = 1
                 /\ \E rejection \in TokenRejections : s.err = TokenFailure(rejection)
           /\ (requestFailed /\ s.sent # <<>> /\ s.resp = NoResponse) =>
                 /\ s.err.type = "BCError" /\ s.err.code = "Client_NetworkError"
                 /\ \E networkError \in NetworkErrors : s.err = fromNetworkError(networkError)
           /\ (s.resp # NoResponse /\ ~s.resp.parses /\ s.pc # "awaitJson") =>
                 /\ requestFailed
                 /\ s.err.type = "BCError" /\ s.err.code = "Client_JSONParsingError"
                 /\ s.err.category = "PARSING_ERROR"
                 /\ s.err.httpStatus = s.resp.status
           /\ (s.resp # NoResponse /\ s.resp.parses /\ ~ResponseOk(s.resp)
               /\ s.pc # "awaitJson") =>
                 /\ requestFailed
                 /\ s.err = fromHttpResponse(s.resp.status, s.resp.data, CorrelationId(s.resp))
                 /\ s.err.httpStatus = s.resp.status
                 /\ s.err.code # "Client_JSONParsingError"
           /\ (s.resp # NoResponse /\ s.resp.parses /\ ResponseOk(s.resp)
               /\ s.pc # "awaitJson") =>
                 IF opts[i].mode = "request"
                 THEN /\ s.pc = "returned"
                      /\ s.found.state = "resolved"
                      /\ s.found.value = s.resp.data
                 ELSE /\ Validated(s)
                      /\ s.page = <<s.resp.data>>
           /\ s.resp # NoResponse => Len(s.sent) = 1 /\ s.tokenCalls = 1

\* A 500 response whose body does not parse: the parse failure, with status 500
C26_Witness ==
    /\ gen["a"].pc = "failed"
    /\ gen["a"].resp # NoResponse
    /\ gen["a"].resp.status = 500 /\ ~gen["a"].resp.parses
    /\ gen["a"].err.code = "Client_JSONParsingError"
    /\ gen["a"].err.httpStatus = 500

\* The method and the server page size a call asks request() for
MethodOf(o) ==
    CASE o.mode = "getById" -> "GET"
      [] o.mode = "update" -> "PATCH"
      [] o.mode = "create" -> "POST"
      [] o.mode = "request" -> IF o.method = JUndef THEN "GET" ELSE o.method.s

\* A server page size was requested: a number other than 0
PageSizeRequested(o) ==
    o.mode = "request" /\ o.serverPageSize # JUndef /\ o.serverPageSize.n # 0

\* C27: every request sent carries Authorization: Bearer <token> with the
\* token the provider returned for this call, Data-Access-Intent: ReadOnly
\* exactly when the method is GET (the default), If-Match: * exactly when the
\* method is PATCH, and Prefer odata.maxpagesize=<n> exactly when a server page
\* size was requested; update() always sends PATCH and so If-Match: *.
C27_RequestHeaders ==
    \A i \in Iters :
        \A k \in 1..Len(gen[i].sent) :
            LET request == gen[i].sent[k]
                headers == request.headers
            IN /\ request.method = MethodOf(opts[i])
               /\ k = gen[i].tokenCalls
               /\ headers["Authorization"] = "Bearer token-" \o ToString(gen[i].tokenCalls)
               /\ ("Data-Access-Intent" \in DOMAIN headers) = (request.method = "GET")
               /\ request.method = "GET" => headers["Data-Access-Intent"] = "ReadOnly"
               /\ ("If-Match" \in DOMAIN headers) = (request.method = "PATCH")
               /\ request.method = "PATCH" => headers["If-Match"] = "*"
               /\ ("Prefer" \in DOMAIN headers) = PageSizeRequested(opts[i])
               /\ PageSizeRequested(opts[i]) =>
                     headers["Prefer"] = "odata.maxpagesize="
                                             \o ToString(opts[i].serverPageSize.n)
               /\ opts[i].mode = "update" =>
                     request.method = "PATCH" /\ headers["If-Match"] = "*"

\* update() has sent its request: PATCH with If-Match and without the intent
C27_Witness ==
    /\ opts["a"].mode = "update"
    /\ Len(gen["a"].sent) = 1
    /\ gen["a"].sent[1].method = "PATCH"
    /\ gen["a"].sent[1].headers["If-Match"] = "*"
    /\ gen["a"].sent[1].headers["Authorization"] = "Bearer token-1"
    /\ "Data-Access-Intent" \notin DOMAIN gen["a"].sent[1].headers

(***************************************************************************)
(* Properties of the cursor, the cap and the token of list().              *)
(***************************************************************************)
\* The response is a page whose continuation link gives no skipToken: the
\* parameter is absent or empty, or the link does not parse
UnreadableLink(response) ==
    /\ HasValueArray(response)
    /\ Truthy(Get(response.data, "@odata.nextLink"))
    /\ SkipTokenOfLink[Get(response.data, "@odata.nextLink").s] = ""

\* C28: when a response of list() carries a continuation link from which no
\* skipToken query parameter can be read, the held cursor is reset to empty:
\* the next page request carries no continuation parameter and asks for the
\* first page again.
C28_UnreadableLinkResetsCursor ==
    \A i \in Iters :
        LET s == gen[i]
        IN /\ (s.resp # NoResponse /\ s.pc # "awaitJson" /\ UnreadableLink(s.resp)) =>
                 s.skipToken = ""
           /\ \A k \in 1..(Len(s.sent) - 1) :
                 UnreadableLink(Respond(server, s.sent[k])) =>
                     /\ ParamsGet(s.sent[k + 1].params, "$skipToken") = JNull
                     /\ s.sent[k + 1].params = URLSearchParams[opts[i].query]
                     /\ Respond(server, s.sent[k + 1]).page = 1

\* The link of the second page does not parse: the third request asks for the
\* first page
C28_Witness ==
    /\ server.defect = [page |-> 2, kind |-> "badlink"]
    /\ Len(gen["a"].sent) >= 3
    /\ RequestCursor(gen["a"].sent[2]) = "t2"
    /\ ParamsGet(gen["a"].sent[3].params, "$skipToken") = JNull
    /\ gen["a"].skipToken = ""

\* list(query, {maxResults: 0})
ZeroCap(i) ==
    opts[i].mode = "list" /\ opts[i].pOpts.maxResults = JNum(0)

\* The same call without a cap
Uncapped(o) == [o EXCEPT !.pOpts.maxResults = JUndef]

\* C29: list() treats maxResults = 0 exactly like an absent cap: it yields
\* every item and keeps requesting pages until a response with an empty value
\* array arrives, instead of yielding nothing.
C29_ZeroCapIsNoCap ==
    \A i \in Iters :
        ZeroCap(i) =>
            LET s == gen[i]
            IN /\ s.pc = "created" => ListLoop(s, opts[i]) = ListLoop(s, Uncapped(opts[i]))
               /\ s.pc = "yielded" => Resumed(s, opts[i]) = Resumed(s, Uncapped(opts[i]))
               /\ s.pc # "done" => s.more
               /\ s.pc = "done" => EmptyPage(s.resp)
               /\ server.defect = NoDefect =>
                     /\ IsPrefix(s.yielded, AllRows(server))
                     /\ s.pc = "done" =>
                           /\ s.yielded = AllRows(server)
                           /\ Len(s.sent) = server.pages + 1

\* With a cap of 0 the rows of all the pages were yielded
C29_Witness ==
    /\ ZeroCap("a")
    /\ server.defect = NoDefect /\ server.pages >= 2 /\ server.size >= 2
    /\ gen["a"].pc = "done"
    /\ gen["a"].yielded = AllRows(server)
    /\ Len(gen["a"].sent) = server.pages + 1

\* The call failed at the token of its page n: n getToken calls, n - 1 sends
TokenFailedBeforePage(s, n) ==
    s.pc = "failed" /\ s.tokenCalls = n /\ Len(s.sent) = n - 1

\* C30: every page request of list() is preceded by its own call to the token
\* provider: an iteration that has sent n requests has made n successful
\* getToken calls, each before the corresponding send, and a token failure
\* before page n ends the iteration with an AUTHENTICATION error after the
\* items of pages 1..n-1 were yielded.
C30_TokenPerPage ==
    \A i \in Iters :
        opts[i].mode = "list" =>
            LET s == gen[i]
            IN /\ Len(s.sent) <= s.tokenCalls /\ s.tokenCalls <= Len(s.sent) + 1
               /\ s.tokenCalls = Len(s.sent) + 1 => s.pc \in {"awaitToken", "failed"}
               /\ \A k \in 1..Len(s.sent) :
                     s.sent[k].headers["Authorization"] = "Bearer token-" \o ToString(k)
               /\ \A n \in 1..(MaxPages + 1) :
                     TokenFailedBeforePage(s, n) =>
                         /\ s.err.type = "BCError"
                         /\ s.err.category = "AUTHENTICATION"
                         /\ server.defect = NoDefect =>
                               /\ Len(s.yielded) = (n - 1) * server.size
                               /\ IsPrefix(s.yielded, AllRows(server))

=============================================================================
